---- MODULE Spec2Model ----
(***************************************************************************)
(* Order lifecycle and payment reconciliation of AllenDataHub:             *)
(* cart, wallet ledger, cart checkout (wallet and Paystack), the Paystack  *)
(* charge.success webhook, vendor (Portal-02) dispatch and the vendor      *)
(* status webhook.  Every request handler is a process whose steps are the *)
(* handler's awaited store / network operations, so that handlers          *)
(* interleave exactly where the event loop lets them.                      *)
(***************************************************************************)
EXTENDS Integers, Sequences, FiniteSets, TLC

\* ---------------------------------------------------------------- bounds
MaxUnits == 2        \* units (sum of quantities) a cart may hold
MaxWebhooks == 2     \* vendor webhook requests over the run
MaxAdds == 2         \* add-to-cart requests before a checkout
MaxTime == 1         \* milliseconds that pass on the wall clock over the run
MaxFaults == 2       \* writes of cart checkouts that the store rejects over the run

\* ------------------------------------------------------------ the domain
Users == {"u1"}
Roles == {"admin", "agent", "user"}
Reqs == {1, 2}                  \* cart-checkout requests of the run (two may overlap)
None == 0                       \* undefined / null / absent id field
Undefined == "undefined"        \* undefined string-valued field
Null == "null"                  \* a string-valued field that holds null
NoPhone == Undefined            \* no phoneNumber: the field is absent
EmptyPhone == ""                \* phoneNumber: ""
Phone == "0241234567"
\* what is added to a cart: <<productId, phoneNumber>>; "gone" is an id with
\* no Product document, "s1" a product as seedDatabase stores it
AddInputs == {<<"p1", Phone>>, <<"p2", NoPhone>>, <<"gone", NoPhone>>, <<"s1", Phone>>}
\* quantity of the request body: absent or 0 (both 0 here), or any number
AddQuantities == {-1, 0, 1, 2}

\* Money.  The program's amounts are JavaScript numbers, and amount / 100 of
\* the wallet credit has a fraction (150 / 100 is 1.5).  Every amount of
\* money is held here in hundredths: the program's number n is the integer
\* 100 * n.  A price of 5 currency units is 500, a wallet credit of 1.5 is
\* 150, and an amount that the program counts in minor units (Paystack's
\* `amount`) is held the same way: 150 minor units are 15000.  Sums,
\* comparisons, n * 100 and n / 100 are then the integer operations.
CreditAmounts == {200}          \* an admin loads 2 currency units

\* Product collection (models/product: price, userPrice, agentPrice; the role
\* prices are optional, and seedDatabase stores products with price only).
Catalog == [p1 |-> [name |-> "MTN 1GB", network |-> "MTN", dataAmount |-> "1GB",
                    price |-> 500, userPrice |-> 300, agentPrice |-> 200],
            p2 |-> [name |-> "MTN 2GB", network |-> "MTN", dataAmount |-> "2GB",
                    price |-> 400, userPrice |-> 200, agentPrice |-> 100],
            p3 |-> [name |-> "MTN 512MB", network |-> "MTN", dataAmount |-> "512MB",
                    price |-> 300, userPrice |-> 200, agentPrice |-> 100],
            p4 |-> [name |-> "MTN Midnight", network |-> "MTN", dataAmount |-> "Unlimited",
                    price |-> 300, userPrice |-> 200, agentPrice |-> 100],
            s1 |-> [name |-> "MTN 1GB", network |-> "MTN", dataAmount |-> "1GB",
                    price |-> 400]]

\* Product.findById(id).lean(): the document or null.
HasProduct(pid) == pid \in DOMAIN Catalog
FindProduct(pid) == Catalog[pid]

VARIABLES
    role,       \* role carried by each user's token
    isVerified, \* User.isVerified
    balance,    \* User.balance
    cart,       \* User.cart, as stored
    orders,     \* Order collection, in insertion (natural) order
    req,        \* cart-checkout handlers: position and locals
    clock,      \* vendor calls made so far (the vendor numbers its orders by them)
    sessions,   \* payment sessions initialised at Paystack, with their metadata
    gw,         \* Paystack webhook handlers: position and locals
    hooks,      \* vendor webhook requests handled so far
    applied,    \* history: <<order, parsed event, status the order was given>>
    credited,   \* history: sum of the amounts credited to each wallet
    pay,        \* the last /api/orders/pay or orders.create request and its answer
    vp,         \* a call of purchaseDataBundleWithRetry: position and locals
    ack,        \* what the last vendor webhook request came to, and its answer
    adds,       \* /api/cart/add handlers: position and locals
    fmt,        \* the last call of formatPhoneNumber: input and results
    stats,      \* User.totalOrdersToday, totalSpentToday, totalGBSentToday, totalGBPurchased
    inbox,      \* a vendor webhook request that has arrived and is not yet handled
    added,      \* history: per (product, phone) pair, the quantities added to the cart
    now,        \* the wall clock in ms, as Date.now() last gave it
    version     \* User.__v, the version key of each user document

vars == <<role, isVerified, balance, cart, orders, req, clock, sessions, gw, hooks, applied,
          credited, pay, vp, ack, adds, fmt, stats, inbox, added, now, version>>

\* ------------------------------------------------------------- helpers
Abs(x) == IF x < 0 THEN -x ELSE x

DigitChars == <<"0", "1", "2", "3", "4", "5", "6", "7", "8", "9">>
IsDigit(ch) == \E d \in 1..10 : DigitChars[d] = ch
DigitValue(ch) == (CHOOSE d \in 1..10 : DigitChars[d] = ch) - 1

\* parseInt of the digit run that starts at position i
RECURSIVE ParseRun(_, _, _)
ParseRun(s, i, acc) ==
    IF i > Len(s) \/ ~IsDigit(s[i]) THEN acc
    ELSE ParseRun(s, i + 1, 10 * acc + DigitValue(s[i]))

RECURSIVE SumSeq(_)
SumSeq(s) == IF s = <<>> THEN 0 ELSE Head(s) + SumSeq(Tail(s))

\* x || dflt for a string: undefined, null and "" are falsy
StringOr(x, dflt) == IF x \in {Undefined, Null, ""} THEN dflt ELSE x

\* quantity || 1: 0 (and an absent quantity, 0 here) gives 1
QuantityOr1(q) == IF q = 0 THEN 1 ELSE q

\* A price that may be absent: <<>> (undefined) or <<n>>.
\* role === 'agent' ? p.agentPrice : p.userPrice
PerItemPrice(rl, p) ==
    IF rl = "agent"
    THEN IF "agentPrice" \in DOMAIN p THEN <<p.agentPrice>> ELSE <<>>
    ELSE IF "userPrice" \in DOMAIN p THEN <<p.userPrice>> ELSE <<>>

\* perItemPrice || 0
PriceOr0(x) == IF x = <<>> THEN 0 ELSE x[1]

\* checkout: total over the cart lines whose product exists (others skipped):
\* total += (perItemPrice || 0) * (item.quantity || 1)
LineTotal(rl, item) ==
    IF HasProduct(item.productId)
    THEN PriceOr0(PerItemPrice(rl, FindProduct(item.productId))) * QuantityOr1(item.quantity)
    ELSE 0
CartTotal(rl, c) == SumSeq([i \in 1..Len(c) |-> LineTotal(rl, c[i])])

\* ---------------------------------------------------------------- cart
\* An element of the stored cart array is a line {productId, quantity,
\* phoneNumber}, a line that lacks fields (productId Undefined: absent), or
\* null: a $set of cart.<k>.quantity at a position past the end of the array
\* creates the element with quantity only and pads the positions before it
\* with null.
NullLine == [productId |-> Null, quantity |-> 0, phoneNumber |-> Null]

\* storage.getCart: productId: (c.productId || "").toString(), quantity:
\* c.quantity || 1, phoneNumber: c.phoneNumber || undefined
GetCart(c) ==
    [i \in 1..Len(c) |-> [productId |-> StringOr(c[i].productId, ""),
                          quantity |-> QuantityOr1(c[i].quantity),
                          phoneNumber |-> StringOr(c[i].phoneNumber, Undefined)]]

\* c.productId of a null element: the map of getCart throws TypeError.
GetCartThrows(c) == \E i \in 1..Len(c) : c[i] = NullLine

\* storage.addToCart: findIndex on productId and phoneNumber, compared with
\* ===: an absent phoneNumber, null and "" are three values.
ExistingIndex(c, pid, phone) ==
    LET hits == {i \in 1..Len(c) : c[i].productId = pid /\ c[i].phoneNumber = phone}
    IN  IF hits = {} THEN 0 ELSE CHOOSE i \in hits : \A j \in hits : i <= j

\* findIndex visits the elements in order up to the first match, and
\* item.productId of a null element throws TypeError.
FindIndexThrows(c, pid, phone) ==
    LET k == ExistingIndex(c, pid, phone)
    IN  \E i \in 1..Len(c) : c[i] = NullLine /\ (k = 0 \/ i < k)

\* The cart after addToCart ran with no other write in between:
\* (quantity || 1) + quantity at the index found, else push.
AddedCart(c, pid, qty, phone) ==
    LET k == ExistingIndex(c, pid, phone)
    IN  IF k # 0
        THEN [c EXCEPT ![k].quantity = QuantityOr1(c[k].quantity) + qty]
        ELSE Append(c, [productId |-> pid, quantity |-> qty, phoneNumber |-> phone])

\* The run's bound on carts: the units of a cart are the orders a checkout
\* would run its loops for (a negative quantity counts by its size).
CartUnits(c) == SumSeq([i \in 1..Len(c) |-> Abs(QuantityOr1(c[i].quantity))])
CartWithinBounds(c) == CartUnits(c) <= MaxUnits

\* History of the add requests answered, per pair: the sum of the
\* quantities added and the number of requests; removing a product or
\* clearing the cart forgets them.
AddedIndex(h, pid, phone) ==
    LET hits == {i \in 1..Len(h) : h[i].productId = pid /\ h[i].phoneNumber = phone}
    IN  IF hits = {} THEN 0 ELSE CHOOSE i \in hits : TRUE

Accumulated(h, pid, qty, phone) ==
    LET k == AddedIndex(h, pid, phone)
    IN  IF k # 0
        THEN [h EXCEPT ![k].quantity = @ + qty, ![k].requests = @ + 1]
        ELSE Append(h, [productId |-> pid, quantity |-> qty, phoneNumber |-> phone,
                        requests |-> 1])

\* storage.addToCart, step by step: User.findById loads the document with
\* its version key __v, findIndex runs on the loaded cart, and user.save()
\* sends the change made to the loaded document: a $push of the new line
\* together with $inc {__v: 1}, or a $set of cart.<index>.quantity with the
\* __v that was loaded in the filter of the update.
Adds == {1, 2}
IdleAdd == [pc |-> "idle", user |-> "u1", productId |-> "p1", phoneNumber |-> NoPhone,
            quantity |-> 0, index |-> 0, base |-> 0, version |-> 0, crashed |-> FALSE]

\* {$set: {"cart.<k>.quantity": q}} on the stored array.
SetQuantity(stored, k, q) ==
    IF k <= Len(stored)
    THEN [stored EXCEPT ![k].quantity = q]
    ELSE stored \o [i \in 1..(k - Len(stored) - 1) |-> NullLine]
         \o <<[productId |-> Undefined, quantity |-> q, phoneNumber |-> Undefined]>>

\* The update of an increment matches no document when __v is no longer
\* what the handler loaded (save() throws VersionError), and the store
\* rejects a $set of a field inside a null element; a $push has no condition.
SaveFails(stored, ver, h) ==
    /\ h.index # 0
    /\ \/ ver # h.version
       \/ (h.index <= Len(stored) /\ stored[h.index] = NullLine)

\* The stored cart after the save of handler h went through.
SavedCart(stored, h) ==
    IF h.index = 0
    THEN Append(stored, [productId |-> h.productId, quantity |-> h.quantity,
                         phoneNumber |-> h.phoneNumber])
    ELSE SetQuantity(stored, h.index, QuantityOr1(h.base) + h.quantity)

\* __v after the save: $inc by the $push, untouched by the $set.
SavedVersion(ver, h) == IF h.index = 0 THEN ver + 1 ELSE ver

\* POST /api/cart/add, up to the end of User.findById and findIndex:
\* quantity || 1 is passed to storage.addToCart.  A TypeError of findIndex
\* is caught by nothing: the request crashes.
AddFind(a, u, pid, q, phone) ==
    /\ adds[a].pc = "idle"
    /\ LET k == ExistingIndex(cart[u], pid, phone)
       IN  adds' = [adds EXCEPT ![a] =
                IF FindIndexThrows(cart[u], pid, phone)
                THEN [IdleAdd EXCEPT !.crashed = TRUE]
                ELSE [pc |-> "save", user |-> u, productId |-> pid, phoneNumber |-> phone,
                      quantity |-> QuantityOr1(q), index |-> k,
                      base |-> IF k = 0 THEN 0 ELSE cart[u][k].quantity,
                      version |-> version[u], crashed |-> FALSE]]
    /\ UNCHANGED <<role, isVerified, balance, cart, orders, req, clock, sessions, gw, hooks, applied,
                   credited, pay, vp, ack, fmt, stats, inbox, added, now, version>>

\* The handlers of /api/cart/add and /api/cart/checkout read the cart with
\* storage.getCart and look every line's product up: getCart throws on a
\* null element, and Product.findById("") of a line without productId
\* rejects (CastError).  Nothing catches either.
CartLookupThrows(stored) ==
    GetCartThrows(stored) \/ \E i \in 1..Len(stored) : GetCart(stored)[i].productId = ""

\* user.save().  A save that throws is caught by nothing: the request
\* crashes.  After a save that went through the route goes on to read the
\* cart back.
AddSave(a) ==
    /\ adds[a].pc = "save"
    /\ LET h == adds[a]
           fails == SaveFails(cart[h.user], version[h.user], h)
           c2 == IF fails THEN cart[h.user] ELSE SavedCart(cart[h.user], h)
           h2 == Accumulated(added[h.user], h.productId, h.quantity, h.phoneNumber)
       IN  /\ CartWithinBounds(c2)
           /\ cart' = [cart EXCEPT ![h.user] = c2]
           /\ version' = [version EXCEPT ![h.user] =
                             IF fails THEN @ ELSE SavedVersion(@, h)]
           /\ added' = [added EXCEPT ![h.user] = IF fails THEN @ ELSE h2]
           /\ adds' = [adds EXCEPT ![a] =
                          IF fails THEN [IdleAdd EXCEPT !.crashed = TRUE]
                          ELSE [IdleAdd EXCEPT !.pc = "read", !.user = h.user]]
    /\ UNCHANGED <<role, isVerified, balance, orders, req, clock, sessions, gw, hooks, applied,
                   credited, pay, vp, ack, fmt, stats, inbox, now>>

\* The rest of the route: storage.getCart reads the cart as it is stored by
\* then, every line's product is looked up and the populated cart is the
\* answer.  A read that throws is caught by nothing: the request crashes.
AddAnswer(a) ==
    /\ adds[a].pc = "read"
    /\ adds' = [adds EXCEPT ![a] =
                   [IdleAdd EXCEPT !.crashed = CartLookupThrows(cart[adds[a].user])]]
    /\ UNCHANGED <<role, isVerified, balance, cart, orders, req, clock, sessions, gw, hooks, applied,
                   credited, pay, vp, ack, fmt, stats, inbox, added, now, version>>

\* POST /api/cart/remove -> storage.removeFromCart: findByIdAndUpdate with
\* $pull {cart: {productId}}, which leaves __v alone (and so does clearCart).
RemovedCart(c, pid) == SelectSeq(c, LAMBDA line : line.productId # pid)

RemoveFromCart(u, pid) ==
    /\ cart' = [cart EXCEPT ![u] = RemovedCart(@, pid)]
    /\ added' = [added EXCEPT ![u] = RemovedCart(@, pid)]
    /\ UNCHANGED <<role, isVerified, balance, orders, req, clock, sessions, gw, hooks, applied,
                   credited, pay, vp, ack, adds, fmt, stats, inbox, now, version>>

\* The run's scheduling bound: the cart and the wallet are prepared before the
\* first checkout of the run starts, and request slots are taken in order.
NoCheckoutRunning == \A r \in Reqs : req[r].pc = "idle"
NoAddRunning == \A a \in Adds : adds[a].pc = "idle"
\* The add requests of the run so far, answered or not.
AddsBegun(u) ==
    SumSeq([i \in 1..Len(added[u]) |-> added[u][i].requests])
        + Cardinality({a \in Adds : adds[a].pc = "save" /\ adds[a].user = u})
InOrder(r) == IF r = 1 THEN TRUE ELSE req[r - 1].pc # "idle"
AddInOrder(a) == IF a = 1 THEN TRUE ELSE adds[a - 1].pc # "idle"

\* POST /api/admin/wallet/:id/load -> storage.creditAgentBalance ($inc)
CreditCap == 200 * MaxUnits     \* enough for the dearest cart of the run
CreditAgentBalance(b, amount) == b + amount

AdminLoadWallet(u, amount) ==
    /\ amount > 0
    /\ balance[u] + amount <= CreditCap
    /\ balance' = [balance EXCEPT ![u] = CreditAgentBalance(balance[u], amount)]
    /\ credited' = [credited EXCEPT ![u] = @ + amount]
    /\ UNCHANGED <<role, isVerified, cart, orders, req, clock, sessions, gw, hooks, applied, pay, vp, ack, adds, fmt, stats, inbox, added, now, version>>

\* ---------------------------------------------------------- verification
\* POST /api/register with body.role absent (Undefined), 'user' or 'agent'
\* ('admin' is answered 403): storage.createUser stores role:
\* insertUser.role || "user", and the route passes isVerified: userData.role
\* === 'user'.  A body without a role gives a user that is not verified.
BodyRoles == {Undefined, "user", "agent"}
RegisteredRole(bodyRole) == StringOr(bodyRole, "user")
RegisteredVerified(bodyRole) == bodyRole = "user"

\* The accounts of the store: the admins that are seeded (verified), and the
\* accounts that registered.
Account(origin) ==
    IF origin = "seed" THEN [role |-> "admin", isVerified |-> TRUE]
    ELSE [role |-> RegisteredRole(origin), isVerified |-> RegisteredVerified(origin)]

\* PATCH verifyAgent (an admin's request) -> storage.updateUserVerification(id, true)
VerifyAgent(u) ==
    /\ isVerified' = [isVerified EXCEPT ![u] = TRUE]
    /\ UNCHANGED <<role, balance, cart, orders, req, clock, sessions, gw, hooks, applied,
                   credited, pay, vp, ack, adds, fmt, stats, inbox, added, now, version>>

\* -------------------------------------------------------- user counters
\* The characters of the data-volume labels of the catalogue.
LabelChars(label) ==
    CASE label = "1GB" -> <<"1", "G", "B">>
      [] label = "2GB" -> <<"2", "G", "B">>
      [] label = "512MB" -> <<"5", "1", "2", "M", "B">>
      [] OTHER -> <<"U", "N", "L", "I", "M", "I", "T", "E", "D">>

EndsWith(str, suf) ==
    Len(str) >= Len(suf) /\ SubSeq(str, Len(str) - Len(suf) + 1, Len(str)) = suf

\* parseFloat(...) || 0 of a label whose number has no fraction: the leading
\* digit run, 0 when there is none.
LeadingNumber(str) == ParseRun(str, 1, 0)

\* gbIncrement, counted in 1/1024 GB so that "512MB" (0.5 GB) is 512:
\* a GB label gives its number, an MB label its number / 1024, any other 0.
GbIncrement(label) ==
    LET str == LabelChars(label)
    IN  IF EndsWith(str, <<"G", "B">>) THEN 1024 * LeadingNumber(str)
        ELSE IF EndsWith(str, <<"M", "B">>) THEN LeadingNumber(str)
        ELSE 0

\* wipedOrders, wipedSpent, wipedGB: history, what resetDailyTotals has
\* taken off the three daily counters so far.
NoStats == [totalOrdersToday |-> 0, totalSpentToday |-> 0, totalGBSentToday |-> 0,
            totalGBPurchased |-> 0, wipedOrders |-> 0, wipedSpent |-> 0, wipedGB |-> 0]

\* createOrder: $inc {totalOrdersToday: 1, totalSpentToday: p.price,
\* totalGBSentToday: gbIncrement}
StatsAfterCreateOrder(st, p) ==
    [st EXCEPT !.totalOrdersToday = @ + 1,
               !.totalSpentToday = @ + p.price,
               !.totalGBSentToday = @ + GbIncrement(p.dataAmount)]

\* createCompletedOrder: $inc {totalOrdersToday: 1, totalSpentToday: p.price,
\* totalGBSentToday: gbIncrement, totalGBPurchased: gbIncrement}
StatsAfterCompletedOrder(st, p) ==
    [st EXCEPT !.totalOrdersToday = @ + 1,
               !.totalSpentToday = @ + p.price,
               !.totalGBSentToday = @ + GbIncrement(p.dataAmount),
               !.totalGBPurchased = @ + GbIncrement(p.dataAmount)]

\* resetDailyTotals (the timer of startDailyReset): User.updateMany({}, {$set:
\* {totalOrdersToday: 0, totalGBSentToday: 0, totalSpentToday: 0}})
DailyTotalsReset(st) ==
    [st EXCEPT !.totalOrdersToday = 0, !.totalGBSentToday = 0, !.totalSpentToday = 0,
               !.wipedOrders = @ + st.totalOrdersToday,
               !.wipedSpent = @ + st.totalSpentToday,
               !.wipedGB = @ + st.totalGBSentToday]

ResetDailyTotals ==
    /\ stats' = [u \in Users |-> DailyTotalsReset(stats[u])]
    /\ UNCHANGED <<role, isVerified, balance, cart, orders, req, clock, sessions, gw, hooks, applied,
                   credited, pay, vp, ack, adds, fmt, inbox, added, now, version>>

\* ------------------------------------------- Portal02Service (vendor client)
\* Texts are sequences of characters: bundle sizes, phone numbers and error
\* messages.
MaxRetries == 2

\* availableVolumes
AvailableVolumes ==
    [MTN |-> {1, 2, 3, 4, 5, 6, 7, 8, 10, 15, 20, 25, 30, 40, 50, 100},
     Telecel |-> {5, 10, 15, 20, 25, 30, 40, 50, 100},
     AirtelTigo |-> {1, 2, 3, 4, 5, 6, 7, 8, 9, 10, 11, 12, 13, 14, 15, 20}]

\* Keys every object literal inherits from Object.prototype.
ObjectProtoKeys ==
    {"constructor", "toString", "toLocaleString", "valueOf", "hasOwnProperty",
     "isPrototypeOf", "propertyIsEnumerable", "__defineGetter__", "__defineSetter__",
     "__lookupGetter__", "__lookupSetter__", "__proto__"}

\* availableVolumes[network]: the array, an inherited member, or undefined.
VolumesOf(network) ==
    IF network \in DOMAIN AvailableVolumes
    THEN [kind |-> "array", items |-> AvailableVolumes[network]]
    ELSE IF network \in ObjectProtoKeys THEN [kind |-> "inherited", items |-> {}]
    ELSE [kind |-> "undefined", items |-> {}]

\* extractVolumeNumber of a string: match /(\d+(\.\d+)?)/, parseInt(match[1], 10)
ExtractVolumeNumber(size) ==
    LET starts == {i \in 1..Len(size) : IsDigit(size[i])}
    IN  IF starts = {} THEN 0
        ELSE ParseRun(size, CHOOSE i \in starts : \A j \in starts : i <= j, 0)

\* isVolumeAvailable: volumes ? volumes.includes(volume) : false; an
\* inherited member is truthy and has no includes (TypeError).
IsVolumeAvailable(network, volume) ==
    LET v == VolumesOf(network)
    IN  IF v.kind = "undefined" THEN "no"
        ELSE IF v.kind = "inherited" THEN "throws"
        ELSE IF volume \in v.items THEN "yes" ELSE "no"

\* String.prototype.includes: pat occurs in text at some position, character
\* by character (inside a word or across words alike).
Includes(text, pat) ==
    \E i \in 0..(Len(text) - Len(pat)) : \A k \in 1..Len(pat) : text[i + k] = pat[k]

\* The decimal digits of a natural number, as `${n}` writes them.
RECURSIVE Digits(_)
Digits(n) ==
    IF n < 10 THEN <<DigitChars[n + 1]>>
    ELSE Digits(n \div 10) \o <<DigitChars[(n % 10) + 1]>>

\* The characters of a text of the run: the messages of the vendor and of the
\* client, the patterns of the retry loop, the network names.
Chars(str) ==
    CASE str = "Insufficient balance" ->
          <<"I", "n", "s", "u", "f", "f", "i", "c", "i", "e", "n", "t", " ", "b", "a",
            "l", "a", "n", "c", "e">>
      [] str = "Phone must be 10 digits" ->
          <<"P", "h", "o", "n", "e", " ", "m", "u", "s", "t", " ", "b", "e", " ", "1",
            "0", " ", "d", "i", "g", "i", "t", "s">>
      [] str = "Phone must begin with 0" ->
          <<"P", "h", "o", "n", "e", " ", "m", "u", "s", "t", " ", "b", "e", "g", "i",
            "n", " ", "w", "i", "t", "h", " ", "0">>
      [] str = "Invalidated session" ->
          <<"I", "n", "v", "a", "l", "i", "d", "a", "t", "e", "d", " ", "s", "e", "s",
            "s", "i", "o", "n">>
      [] str = "fetch failed" ->
          <<"f", "e", "t", "c", "h", " ", "f", "a", "i", "l", "e", "d">>
      [] str = "Invalid bundle size" ->
          <<"I", "n", "v", "a", "l", "i", "d", " ", "b", "u", "n", "d", "l", "e", " ",
            "s", "i", "z", "e">>
      [] str = "GB not available for " ->
          <<"G", "B", " ", "n", "o", "t", " ", "a", "v", "a", "i", "l", "a", "b", "l",
            "e", " ", "f", "o", "r", " ">>
      [] str = "HTTP " ->
          <<"H", "T", "T", "P", " ">>
      [] str = "Network error" ->
          <<"N", "e", "t", "w", "o", "r", "k", " ", "e", "r", "r", "o", "r">>
      [] str = "volumes.includes is not a function" ->
          <<"v", "o", "l", "u", "m", "e", "s", ".", "i", "n", "c", "l", "u", "d", "e",
            "s", " ", "i", "s", " ", "n", "o", "t", " ", "a", " ", "f", "u", "n", "c", "t",
            "i", "o", "n">>
      [] str = "not available" ->
          <<"n", "o", "t", " ", "a", "v", "a", "i", "l", "a", "b", "l", "e">>
      [] str = "Invalid" ->
          <<"I", "n", "v", "a", "l", "i", "d">>
      [] str = "must be" ->
          <<"m", "u", "s", "t", " ", "b", "e">>
      [] str = "MTN" ->
          <<"M", "T", "N">>
      [] str = "Telecel" ->
          <<"T", "e", "l", "e", "c", "e", "l">>
      [] str = "AirtelTigo" ->
          <<"A", "i", "r", "t", "e", "l", "T", "i", "g", "o">>
      [] str = "Glo" ->
          <<"G", "l", "o">>

\* a || b
OrElse(a, b) == IF a # None THEN a ELSE b

\* { success: false, error }
FailedResult(err) ==
    [success |-> FALSE, transactionId |-> None, reference |-> None, status |-> Undefined,
     error |-> err]

\* The result built from a 2xx answer `data`: transactionId: data.orderId ||
\* data.id, reference: data.reference || data.orderId, status: data.status ||
\* "pending".
VendorAccepted(data) ==
    [success |-> TRUE, transactionId |-> OrElse(data.orderId, data.id),
     reference |-> OrElse(data.reference, data.orderId),
     status |-> StringOr(data.status, "pending"), error |-> <<>>]

\* What happens to the fetch of one attempt:
\*   ok:  the vendor answers 2xx with a body {orderId, id, reference, status}
\*        (None, Undefined: the property is absent; a body that is not JSON
\*        is read as {})
\*   http: the vendor answers non-2xx with a message (<<>>: none)
\*   neterr: fetch rejects with an Error that has a message
Answer(kind, orderId, id, reference, status, msg) ==
    [kind |-> kind, orderId |-> orderId, id |-> id, reference |-> reference,
     status |-> status, msg |-> msg]

Reactions ==
    {Answer("ok", 1, None, None, Undefined, <<>>),
     Answer("ok", None, 2, 7, "processing", <<>>),
     Answer("ok", None, None, None, Undefined, <<>>),
     Answer("http", None, None, None, Undefined, Chars("Insufficient balance")),
     Answer("http", None, None, None, Undefined, Chars("Phone must be 10 digits")),
     Answer("http", None, None, None, Undefined, Chars("Phone must begin with 0")),
     Answer("http", None, None, None, Undefined, Chars("Invalidated session")),
     Answer("http", None, None, None, Undefined, <<>>),
     Answer("neterr", None, None, None, Undefined, Chars("fetch failed"))}

\* The vendor's answers to a purchase sent with reference `sent`, `fresh`
\* being the next id the vendor hands out: accepted with the reference
\* echoed, accepted with a status and no reference, accepted with an empty
\* body, refused.
VendorReplies(fresh, sent) ==
    {Answer("ok", fresh, None, sent, Undefined, <<>>),
     Answer("ok", fresh, None, None, "processing", <<>>),
     Answer("ok", None, None, None, Undefined, <<>>),
     Answer("http", None, None, None, Undefined, Chars("Insufficient balance"))}

\* The two of them that runs with overlapping handlers take: accepted with
\* the reference echoed, and refused.
PlainReplies(fresh, sent) ==
    {Answer("ok", fresh, None, sent, Undefined, <<>>),
     Answer("http", None, None, None, Undefined, Chars("Insufficient balance"))}

\* purchaseDataBundle: [thrown, fetched, result]
PurchaseDataBundle(size, network, reaction) ==
    LET volume == ExtractVolumeNumber(size)
        avail == IF volume <= 0 THEN "no" ELSE IsVolumeAvailable(network, volume)
    IN  IF volume <= 0
        THEN [thrown |-> FALSE, fetched |-> FALSE,
              result |-> FailedResult(Chars("Invalid bundle size"))]
        ELSE IF avail = "throws"
        THEN [thrown |-> TRUE, fetched |-> FALSE, result |-> FailedResult(<<>>)]
        ELSE IF avail = "no"
        THEN [thrown |-> FALSE, fetched |-> FALSE,
              result |-> FailedResult(Digits(volume) \o Chars("GB not available for ")
                                          \o Chars(network))]
        ELSE IF reaction.kind = "ok"
        THEN [thrown |-> FALSE, fetched |-> TRUE,
              result |-> VendorAccepted(reaction)]
        ELSE IF reaction.kind = "http"
        THEN [thrown |-> FALSE, fetched |-> TRUE,
              result |-> FailedResult(IF reaction.msg # <<>> THEN reaction.msg
                                      ELSE Chars("HTTP ") \o Digits(500))]
        ELSE [thrown |-> FALSE, fetched |-> TRUE,
              result |-> FailedResult(IF reaction.msg # <<>> THEN reaction.msg
                                      ELSE Chars("Network error"))]

\* the errors after which the retry loop breaks
IsValidationError(err) ==
    \/ Includes(err, Chars("not available"))
    \/ Includes(err, Chars("Invalid"))
    \/ Includes(err, Chars("must be"))

\* Variant: every failure is retried.
AfterAttemptAlwaysRetry(result, attempt) ==
    IF result.success THEN "return"
    ELSE IF attempt < MaxRetries THEN "again" ELSE "return"

\* The retry loop after attempt number `attempt` gave `result`.
AfterAttempt(result, attempt) ==
    IF result.success THEN "return"
    ELSE IF IsValidationError(result.error) THEN "return"
    ELSE IF attempt < MaxRetries THEN "again" ELSE "return"

IdleCall == [pc |-> "idle", size |-> <<>>, network |-> "MTN", attempt |-> 0,
             log |-> <<>>, fetches |-> 0, ret |-> FailedResult(<<>>)]

\* purchaseDataBundleWithRetry is called.
RetryBegin(size, network) ==
    /\ vp.pc = "idle"
    /\ vp' = [vp EXCEPT !.pc = "attempt", !.size = size, !.network = network,
                        !.attempt = 1]
    /\ UNCHANGED <<role, isVerified, balance, cart, orders, req, clock, sessions, gw, hooks, applied,
                   credited, pay, ack, adds, fmt, stats, inbox, added, now, version>>

\* One pass of the loop: purchaseDataBundle, lastResult, return / break / wait.
RetryAttempt(reaction) ==
    /\ vp.pc = "attempt"
    /\ LET out == PurchaseDataBundle(vp.size, vp.network, reaction)
           fetched == IF out.fetched THEN 1 ELSE 0
       IN  vp' = IF out.thrown
                 THEN [vp EXCEPT !.pc = "thrown",
                                 !.log = Append(@, [thrown |-> TRUE, result |-> out.result])]
                 ELSE [vp EXCEPT
                         !.pc = IF AfterAttempt(out.result, vp.attempt) = "again"
                                THEN "attempt" ELSE "returned",
                         !.attempt = IF AfterAttempt(out.result, vp.attempt) = "again"
                                     THEN @ + 1 ELSE @,
                         !.log = Append(@, [thrown |-> FALSE, result |-> out.result]),
                         !.fetches = @ + fetched,
                         !.ret = out.result]
    /\ UNCHANGED <<role, isVerified, balance, cart, orders, req, clock, sessions, gw, hooks, applied,
                   credited, pay, ack, adds, fmt, stats, inbox, added, now, version>>

\* What the callers pass: p.dataAmount and p.network of a product.
BundleSizes == {<<"1", "G", "B">>, <<"7", "G", "B">>, <<"1", "0", "G", "B">>,
                <<"1", ".", "5", "G", "B">>, <<"G", "B">>}
BundleNetworks == {"MTN", "Telecel", "Glo", "constructor", "toLocaleString"}

\* formatPhoneNumber.  Strings are sequences of characters.
CountryCode == <<"2", "3", "3">>
StartsWith(str, pre) == Len(str) >= Len(pre) /\ SubSeq(str, 1, Len(pre)) = pre

\* Variant: the local form is not rewritten.
FormatPhoneNumberNoLocal(phone) ==
    IF phone = <<>> THEN <<>>
    ELSE LET cleaned == SelectSeq(phone, IsDigit)
         IN  IF StartsWith(cleaned, <<"+", "2", "3", "3">>) THEN Tail(cleaned)
             ELSE IF Len(cleaned) = 9 THEN CountryCode \o cleaned
             ELSE cleaned

\* replace(/\D/g, ""), then the three rewrites in the order of the code.
FormatPhoneNumber(phone) ==
    IF phone = <<>> THEN <<>>
    ELSE LET cleaned == SelectSeq(phone, IsDigit)
         IN  IF StartsWith(cleaned, <<"0">>) /\ Len(cleaned) = 10
             THEN CountryCode \o Tail(cleaned)
             ELSE IF StartsWith(cleaned, <<"+", "2", "3", "3">>) THEN Tail(cleaned)
             ELSE IF Len(cleaned) = 9 THEN CountryCode \o cleaned
             ELSE cleaned

\* Phone numbers as users type them: a prefix, an optional separator, and
\* a subscriber number of eight or nine digits.
PhonePrefixes == {<<>>, <<"0">>, <<"+", "2", "3", "3">>, <<"2", "3", "3">>, <<"0", "0">>,
                  <<"+">>}
PhoneSeparators == {<<>>, <<" ">>, <<"-">>}
SubscriberNumbers ==
    {SubSeq(<<d1, "4", "1", "2", "3", "4", "5", "6", d9>>, k, 9) :
        d1 \in {"2", "5"}, d9 \in {"0", "7"}, k \in {1, 2}}

NoFormat == [called |-> FALSE, prefix |-> <<>>, body |-> <<>>, input |-> <<>>,
             out |-> <<>>, again |-> <<>>]

\* purchaseDataBundle formats the phone it is given; the result is formatted
\* once more, as it is when a stored formatted number is dispatched again.
FormatPhone(prefix, sep, body) ==
    /\ LET input == prefix \o sep \o body
           out == FormatPhoneNumber(input)
       IN  fmt' = [called |-> TRUE, prefix |-> prefix, body |-> body, input |-> input,
                   out |-> out, again |-> FormatPhoneNumber(out)]
    /\ UNCHANGED <<role, isVerified, balance, cart, orders, req, clock, sessions, gw, hooks, applied,
                   credited, pay, vp, ack, adds, stats, inbox, added, now, version>>

\* -------------------------------------------------------------- orders
\* storage.createCompletedOrder: the Order document it saves.
\* price: priceOverride when a number (<<n>>; <<>> when undefined), else
\* p.price; status: statusOverride || "completed"; paymentStatus: given or
\* "success"; phoneNumber: order.phoneNumber || undefined.
NewCompletedOrder(u, pid, priceOverride, phone, statusOverride, by, line) ==
    LET p == FindProduct(pid)
    IN  [userId |-> u, productId |-> pid,
         price |-> IF priceOverride # <<>> THEN priceOverride[1] ELSE p.price,
         dataAmount |-> p.dataAmount,
         status |-> StringOr(statusOverride, "completed"),
         paymentStatus |-> "success",
         phoneNumber |-> StringOr(phone, Undefined),
         vendorOrderId |-> None,
         processingResults |-> <<>>,
         webhookHistory |-> <<>>,
         by |-> by, line |-> line]

\* const phoneNumber = item.phoneNumber || ""
LocalPhone(item) == StringOr(item.phoneNumber, "")

\* statusOverride: p && phoneNumber ? "processing" : undefined
StatusOverride(pid, phone) ==
    IF HasProduct(pid) /\ StringOr(phone, "") # "" THEN "processing" ELSE Undefined

\* if (p && phoneNumber && portal02Service)
Dispatches(pid, phone) == HasProduct(pid) /\ StringOr(phone, "") # ""

\* ------------------------------------------------------ vendor gateway
NoResult == FailedResult(<<>>)

\* portal02Service.purchaseDataBundleWithRetry(phoneNumber, p.dataAmount,
\* p.network, reference) as the handlers call it; `reaction` is the vendor's
\* reaction to the attempt whose result the call returns.
Purchase(p, reaction) == PurchaseDataBundle(LabelChars(p.dataAmount), p.network, reaction)

\* Order.findByIdAndUpdate(order.id, {$set: {vendorOrderId, "processingResults.0",
\* status}}) after the vendor call.
DispatchStatus(vr) == IF vr.success THEN "processing" ELSE "failed"

RecordDispatch(o, vr) ==
    [o EXCEPT !.vendorOrderId = OrElse(vr.transactionId, vr.reference),
              !.processingResults =
                  <<[itemIndex |-> 0, success |-> vr.success,
                     transactionId |-> vr.transactionId, reference |-> vr.reference,
                     error |-> vr.error,
                     status |-> IF vr.status # Undefined THEN vr.status
                                ELSE IF vr.success THEN "processing" ELSE "failed"]>>,
              !.status = DispatchStatus(vr)]

\* The catch around the vendor call and the update: {$set: {status: "failed",
\* "processingResults.0": {itemIndex: 0, success: false, error:
\* vendorErr.message, status: "failed"}}}; the message is the TypeError's
\* (the store's own message, when it was the update that rejected, is a
\* text like it: not empty).
RecordDispatchError(o) ==
    [o EXCEPT !.processingResults =
                  <<[itemIndex |-> 0, success |-> FALSE, transactionId |-> None,
                     reference |-> None, error |-> Chars("volumes.includes is not a function"),
                     status |-> "failed"]>>,
              !.status = "failed"]

\* ------------------------------------------------------- wallet ledger
\* storage.deductAgentBalance: $inc balance by -Math.abs(amount)
\* Variant: the debit is not applied.
DeductAgentBalanceSkipped(b, amount) == b

DeductAgentBalance(b, amount) == b - Abs(amount)

\* balance < total
InsufficientFunds(bal, total) == bal < total

\* ----------------------------------------------- POST /api/cart/checkout
WalletRef(oid) == 100 + oid       \* `ORD-${order.id}-${Date.now()}`

\* Position of the fan-out loop after unit ui of line li is finished:
\* the next unit (i < (item.quantity || 1)), the next line (where
\* p = productsMap[item.productId] is dereferenced), or the end of the loop.
LoopAt(c, li, ui) ==
    IF li > Len(c) THEN [pc |-> "clear", li |-> li, ui |-> 0]
    ELSE IF ui = 1 /\ ~HasProduct(c[li].productId)
         THEN [pc |-> "crashed", li |-> li, ui |-> 0]     \* p.agentPrice of undefined
    ELSE IF ui > QuantityOr1(c[li].quantity) THEN [pc |-> "next", li |-> li + 1, ui |-> 1]
    ELSE [pc |-> "create", li |-> li, ui |-> ui]

RECURSIVE LoopNext(_, _, _)
LoopNext(c, li, ui) ==
    LET at == LoopAt(c, li, ui)
    IN  IF at.pc = "next" THEN LoopNext(c, at.li, at.ui) ELSE at

\* The handler at loop position `at`; an uncaught TypeError ends it.
Goto(rq, at) ==
    [rq EXCEPT !.pc = at.pc, !.li = at.li, !.ui = at.ui,
               !.resp = IF at.pc = "crashed" THEN "crash" ELSE rq.resp]

\* Variant: the branch on paymentMethod without the empty-cart check.
BeginOutcomeNoEmptyCheck(c, rl, method) ==
    IF method = "wallet" /\ rl # "agent" THEN [pc |-> "done", resp |-> "Forbidden"]
    ELSE IF method = "wallet" THEN [pc |-> "balance", resp |-> "none"]
    ELSE [pc |-> "session", resp |-> "none"]

\* Variant: the wallet branch without the role check.
BeginOutcomeNoRoleCheck(c, rl, method) ==
    IF Len(c) = 0 THEN [pc |-> "done", resp |-> "EmptyCart"]
    ELSE IF method = "wallet" THEN [pc |-> "balance", resp |-> "none"]
    ELSE [pc |-> "session", resp |-> "none"]

\* The empty-cart check and the branch on paymentMethod and role.
BeginOutcome(c, rl, method) ==
    IF Len(c) = 0 THEN [pc |-> "done", resp |-> "EmptyCart"]
    ELSE IF method = "wallet" /\ rl # "agent" THEN [pc |-> "done", resp |-> "Forbidden"]
    ELSE IF method = "wallet" THEN [pc |-> "balance", resp |-> "none"]
    ELSE [pc |-> "session", resp |-> "none"]

\* storage.getCart, the empty check, the total and the branch on paymentMethod.
CheckoutBegin(r, u, method) ==
    /\ req[r].pc = "idle"
    /\ LET c == GetCart(cart[u])
           out == BeginOutcome(c, role[u], method)
       IN  req' = [req EXCEPT ![r] =
                IF CartLookupThrows(cart[u])
                THEN [@ EXCEPT !.user = u, !.method = method, !.pc = "crashed",
                               !.resp = "crash"]
                ELSE [@ EXCEPT !.user = u, !.method = method, !.cart = c,
                               !.pc = out.pc, !.resp = out.resp]]
    /\ UNCHANGED <<role, isVerified, balance, cart, orders, clock, sessions, gw, hooks, applied,
                   credited, pay, vp, ack, adds, fmt, stats, inbox, added, now, version>>

\* storage.getUser(userId) and the funds check.
CheckoutReadBalance(r) ==
    /\ req[r].pc = "balance"
    /\ LET u == req[r].user
           total == CartTotal(role[u], req[r].cart)
           bal == balance[u]
       IN  req' = [req EXCEPT ![r] =
                IF InsufficientFunds(bal, total)
                THEN [@ EXCEPT !.pc = "done", !.resp = "InsufficientFunds", !.balRead = bal]
                ELSE [@ EXCEPT !.pc = "debit", !.balRead = bal]]
    /\ UNCHANGED <<role, isVerified, balance, cart, orders, clock, sessions, gw, hooks, applied,
                   credited, pay, vp, ack, adds, fmt, stats, inbox, added, now, version>>

\* storage.deductAgentBalance(userId, total), then the loop is entered.
CheckoutDebit(r) ==
    /\ req[r].pc = "debit"
    /\ LET u == req[r].user
           total == CartTotal(role[u], req[r].cart)
           at == LoopNext(req[r].cart, 1, 1)
       IN  /\ balance' = [balance EXCEPT ![u] = DeductAgentBalance(balance[u], total)]
           /\ req' = [req EXCEPT ![r] =
                  Goto([@ EXCEPT !.debited =
                                     balance[u] - DeductAgentBalance(balance[u], total)], at)]
    /\ UNCHANGED <<role, isVerified, cart, orders, clock, sessions, gw, hooks, applied, credited,
                   pay, vp, ack, adds, fmt, stats, inbox, added, now, version>>

\* const p = productsMap[item.productId]; perItemPrice of the line, passed
\* as priceOverride (undefined when the product has no price for the role).
UnitPrice(rl, item) == PerItemPrice(rl, FindProduct(item.productId))

\* The loop position after the dispatch of unit ui of line li: the vendor
\* result is recorded and the loop goes on, whatever the result.
AfterDispatch(c, li, ui, vr) == LoopNext(c, li, ui + 1)

\* storage.createCompletedOrder for one unit of one line, up to the end of
\* newOrder.save().
CheckoutCreateOrder(r) ==
    /\ req[r].pc = "create"
    /\ LET u == req[r].user
           item == req[r].cart[req[r].li]
           o == NewCompletedOrder(u, item.productId, UnitPrice(role[u], item),
                                  LocalPhone(item),
                                  StatusOverride(item.productId, LocalPhone(item)),
                                  <<"checkout", r>>, req[r].li)
       IN  /\ orders' = Append(orders, o)
           /\ req' = [req EXCEPT ![r] = [@ EXCEPT !.pc = "count", !.oid = Len(orders) + 1]]
    /\ UNCHANGED <<role, isVerified, balance, cart, clock, sessions, gw, hooks, applied, credited,
                   pay, vp, ack, adds, fmt, stats, inbox, added, now, version>>

\* The run's bound on the rejections of the store.
StoreRejections == SumSeq([r \in 1..Cardinality(Reqs) |-> req[r].faults])
Rejected(rq) == [rq EXCEPT !.faults = @ + 1]

\* Product.findById or newOrder.save() rejects (the store is unreachable, or
\* the product is gone from it since the total was computed): the catch
\* around the unit logs the error and the loop goes on.
CheckoutCreateOrderFails(r) ==
    /\ req[r].pc = "create"
    /\ StoreRejections < MaxFaults
    /\ req' = [req EXCEPT ![r] =
            Goto(Rejected(@), LoopNext(req[r].cart, req[r].li, req[r].ui + 1))]
    /\ UNCHANGED <<role, isVerified, balance, cart, orders, clock, sessions, gw, hooks, applied, credited,
                   pay, vp, ack, adds, fmt, stats, inbox, added, now, version>>

\* The rest of storage.createCompletedOrder: User.findByIdAndUpdate with the
\* $inc of the counters; then the vendor call if there is a phone number, or
\* the next unit.
CheckoutCountOrder(r) ==
    /\ req[r].pc = "count"
    /\ LET u == req[r].user
           item == req[r].cart[req[r].li]
           at == LoopNext(req[r].cart, req[r].li, req[r].ui + 1)
       IN  /\ stats' = [stats EXCEPT ![u] =
                           StatsAfterCompletedOrder(@, FindProduct(item.productId))]
           /\ req' = [req EXCEPT ![r] =
                IF Dispatches(item.productId, LocalPhone(item))
                THEN [@ EXCEPT !.pc = "dispatch"]
                ELSE Goto(@, at)]
    /\ UNCHANGED <<role, isVerified, balance, cart, orders, clock, sessions, gw, hooks, applied,
                   credited, pay, vp, ack, adds, fmt, inbox, added, now, version>>

\* The $inc rejects after the order was saved: createCompletedOrder throws,
\* the catch around the unit logs the error and the loop goes on; the order
\* stays as it was saved and is not dispatched.
CheckoutCountFails(r) ==
    /\ req[r].pc = "count"
    /\ StoreRejections < MaxFaults
    /\ req' = [req EXCEPT ![r] =
            Goto(Rejected(@), LoopNext(req[r].cart, req[r].li, req[r].ui + 1))]
    /\ UNCHANGED <<role, isVerified, balance, cart, orders, clock, sessions, gw, hooks, applied, credited,
                   pay, vp, ack, adds, fmt, stats, inbox, added, now, version>>

\* portal02Service.purchaseDataBundleWithRetry; a TypeError it throws goes to
\* the catch around the vendor call.
CheckoutDispatch(r, reaction) ==
    /\ req[r].pc = "dispatch"
    /\ clock' = clock + 1
    /\ LET item == req[r].cart[req[r].li]
           out == Purchase(FindProduct(item.productId), reaction)
       IN  req' = [req EXCEPT ![r] =
                [@ EXCEPT !.pc = IF out.thrown THEN "catch" ELSE "persist",
                          !.calls = @ + 1, !.vres = out.result]]
    /\ UNCHANGED <<role, isVerified, balance, cart, orders, sessions, gw, hooks, applied, credited,
                   pay, vp, ack, adds, fmt, stats, inbox, added, now, version>>

\* Order.findByIdAndUpdate with the vendor result; the loop goes on.
CheckoutPersist(r) ==
    /\ req[r].pc = "persist"
    /\ LET u == req[r].user
           at == AfterDispatch(req[r].cart, req[r].li, req[r].ui, req[r].vres)
       IN  /\ orders' = [orders EXCEPT ![req[r].oid] = RecordDispatch(@, req[r].vres)]
           /\ req' = [req EXCEPT ![r] = Goto([@ EXCEPT !.vres = NoResult], at)]
    /\ UNCHANGED <<role, isVerified, balance, cart, clock, sessions, gw, hooks, applied, credited,
                   pay, vp, ack, adds, fmt, stats, inbox, added, now, version>>

\* Order.findByIdAndUpdate rejects: the catch around the vendor call and the
\* update is entered.
CheckoutPersistFails(r) ==
    /\ req[r].pc = "persist"
    /\ StoreRejections < MaxFaults
    /\ req' = [req EXCEPT ![r] = [Rejected(@) EXCEPT !.pc = "catch"]]
    /\ UNCHANGED <<role, isVerified, balance, cart, orders, clock, sessions, gw, hooks, applied,
                   credited, pay, vp, ack, adds, fmt, stats, inbox, added, now, version>>

\* The catch: the order is written as failed; when this update rejects too,
\* the catch around the unit logs the error.  The loop goes on.
CheckoutCatch(r, rejected) ==
    /\ req[r].pc = "catch"
    /\ rejected => StoreRejections < MaxFaults
    /\ LET at == LoopNext(req[r].cart, req[r].li, req[r].ui + 1)
       IN  /\ orders' = IF rejected THEN orders
                        ELSE [orders EXCEPT ![req[r].oid] = RecordDispatchError(@)]
           /\ req' = [req EXCEPT ![r] =
                  Goto([(IF rejected THEN Rejected(@) ELSE @) EXCEPT !.vres = NoResult], at)]
    /\ UNCHANGED <<role, isVerified, balance, cart, clock, sessions, gw, hooks, applied, credited,
                   pay, vp, ack, adds, fmt, stats, inbox, added, now, version>>

\* storage.clearCart: {$set: {cart: []}}
ClearedCart(c) == <<>>

\* storage.clearCart and the success response.
CheckoutClear(r) ==
    /\ req[r].pc = "clear"
    /\ cart' = [cart EXCEPT ![req[r].user] = ClearedCart(@)]
    /\ added' = [added EXCEPT ![req[r].user] = <<>>]
    /\ req' = [req EXCEPT ![r] = [@ EXCEPT !.pc = "done", !.resp = "ok"]]
    /\ UNCHANGED <<role, isVerified, balance, orders, clock, sessions, gw, hooks, applied, credited,
                   pay, vp, ack, adds, fmt, stats, inbox, now, version>>

\* POST /api/cart/clear -> storage.clearCart
ClearCart(u) ==
    /\ cart' = [cart EXCEPT ![u] = ClearedCart(@)]
    /\ added' = [added EXCEPT ![u] = <<>>]
    /\ UNCHANGED <<role, isVerified, balance, orders, req, clock, sessions, gw, hooks, applied,
                   credited, pay, vp, ack, adds, fmt, stats, inbox, now, version>>

\* Variant: the total goes to Paystack as it is, in currency units.
MinorUnitsUnconverted(total) == total

\* fetch to Paystack transaction/initialize: amount = total * 100, metadata
\* {type: 'order', userId, cart}.
MinorUnits(total) == total * 100

\* Variant: the metadata does not carry the cart.
SessionMetadataNoCart(u, c) == [type |-> "order", userId |-> u, cart |-> <<>>]

\* metadata: { type: 'order', userId, cart }
SessionMetadata(u, c) == [type |-> "order", userId |-> u, cart |-> c]

\* What the initialisation request comes to:
\*   unconfigured: PAYSTACK_SECRET_KEY is not set, no request is made
\*   accepted:     Paystack answers with a session (authorization_url)
\*   refused:      Paystack answers with a JSON refusal ({status: false})
\*   notjson:      Paystack answers with a body that is not JSON
\*   unreachable:  fetch rejects
PaystackReplies == {"unconfigured", "accepted", "refused", "notjson", "unreachable"}

\* The answer of the route: the JSON body of Paystack's answer is passed on
\* with HTTP 200, whatever it says; resp.json() or fetch throwing gives 500
\* "Paystack initialization failed", a missing secret 500 "Paystack not
\* configured".
InitAnswer(reply) ==
    CASE reply = "accepted" -> "session"
      [] reply = "refused" -> "refused"
      [] reply = "unconfigured" -> "NotConfigured"
      [] OTHER -> "PaystackFailed"

InitStatusCode(resp) == IF resp \in {"session", "refused"} THEN 200 ELSE 500

CheckoutInitSession(r, reply) ==
    /\ req[r].pc = "session"
    /\ LET u == req[r].user
           total == CartTotal(role[u], req[r].cart)
           md == SessionMetadata(u, req[r].cart)
       IN  /\ sessions' = IF reply = "accepted"
                          THEN Append(sessions, [type |-> md.type, userId |-> md.userId,
                                                 agentId |-> Undefined, cart |-> md.cart,
                                                 amount |-> MinorUnits(total), by |-> r])
                          ELSE sessions
           /\ req' = [req EXCEPT ![r] = [@ EXCEPT !.pc = "done", !.resp = InitAnswer(reply)]]
    /\ UNCHANGED <<role, isVerified, balance, cart, orders, clock, gw, hooks, applied, credited,
                   pay, vp, ack, adds, fmt, stats, inbox, added, now, version>>

\* --------------------------------------------- POST /api/paystack/webhook
\* charge.success with metadata.type = 'order': orders are created from the
\* cart snapshot of the session's metadata.
Gws == {1, 2}          \* deliveries of charge.success over the run (they may overlap)
\* `ORD-${Date.now()}-${i}`: the reference is told by the millisecond t and
\* the unit index i.
GwRef(t, i) == 200 + 10 * t + i

\* What Date.now() may give at a step: the millisecond of the last reading,
\* or the next one.
ClockReadings == {t \in {now, now + 1} : t <= MaxTime}

\* for (const item of cart) { const qty = item.quantity || 1;
\*   for (let i = 0; i < qty; i++)
GwLoopAt(c, li, ui) ==
    IF li > Len(c) THEN [pc |-> "clear", li |-> li, ui |-> 0]
    ELSE IF ui > QuantityOr1(c[li].quantity) THEN [pc |-> "next", li |-> li + 1, ui |-> 1]
    ELSE [pc |-> "create", li |-> li, ui |-> ui]

RECURSIVE GwLoopNext(_, _, _)
GwLoopNext(c, li, ui) ==
    LET at == GwLoopAt(c, li, ui)
    IN  IF at.pc = "next" THEN GwLoopNext(c, at.li, at.ui) ELSE at

GwGoto(h, at) == [h EXCEPT !.pc = at.pc, !.li = at.li, !.ui = at.ui]

\* crypto.createHmac("sha512", secret).update(raw).digest("hex"): the digest
\* is a function of the raw body, and bodies are told apart by the session
\* they report (0: some other body).
Hmac(body) == <<"hmac", body>>
NoSignature == <<>>         \* the x-paystack-signature header is absent
Signatures(s) == {NoSignature, Hmac(s), Hmac(0)}

\* Variant: any signature header that is present is accepted.
SignatureOkAnyPresent(signature, raw) == signature # NoSignature

\* !signature || signature !== hmac  rejects.
SignatureOk(signature, raw) == signature # NoSignature /\ signature = Hmac(raw)

\* The HTTP status of each answer of the handler: 500 "Paystack not
\* configured", 400 "Invalid signature", 500 "Webhook error", 200.
GwStatusCode(resp) ==
    IF resp = "NotConfigured" THEN 500
    ELSE IF resp = "InvalidSignature" THEN 400
    ELSE IF resp = "error" THEN 500
    ELSE 200

\* creditAgentBalance(agentId, amount / 100).  Amounts are held in
\* hundredths, so the quotient is exact: 150 minor units (15000) give 1.5
\* currency units (150).
WalletCredit(amount) == amount \div 100

\* POST /api/paystack/initialize: amount and metadata go to Paystack as the
\* client sent them (the wallet page sends {type: 'wallet', agentId}); the
\* answer is InitAnswer(reply), and Paystack holds a session only when it
\* accepted the request.
MaxSessions == 2
\* The wallet page sends Math.round(amount * 100): 150 and 200 minor units.
FundingAmounts == {15000, 20000}
PaystackInitialize(u, amount, reply) ==
    /\ Len(sessions) < MaxSessions
    /\ sessions' = IF reply = "accepted"
                   THEN Append(sessions, [type |-> "wallet", userId |-> Undefined,
                                          agentId |-> u, cart |-> <<>>,
                                          amount |-> amount, by |-> 0])
                   ELSE sessions
    /\ UNCHANGED <<role, isVerified, balance, cart, orders, req, clock, gw, hooks, applied, credited,
                   pay, vp, ack, adds, fmt, stats, inbox, added, now, version>>

\* A delivery of charge.success for session s arrives with signature sig,
\* PAYSTACK_SECRET_KEY being set (configured) or not: the check of the
\* secret, the signature check, the wallet credit of a funding session, and
\* the entry into the order loop of an order session.
GwBegin(g, s, sig, configured) ==
    /\ gw[g].pc = "idle"
    /\ s \in 1..Len(sessions)
    /\ LET m == sessions[s]
           c == m.cart
           h == [gw[g] EXCEPT !.sess = s, !.sig = sig, !.configured = configured]
       IN  IF ~configured
           THEN /\ gw' = [gw EXCEPT ![g] =
                            [h EXCEPT !.pc = "done", !.resp = "NotConfigured"]]
                /\ UNCHANGED <<balance, credited>>
           ELSE IF ~SignatureOk(sig, s)
           THEN /\ gw' = [gw EXCEPT ![g] =
                            [h EXCEPT !.pc = "done", !.resp = "InvalidSignature"]]
                /\ UNCHANGED <<balance, credited>>
           ELSE IF m.type = "wallet"
           THEN /\ gw' = [gw EXCEPT ![g] = [h EXCEPT !.pc = "done", !.resp = "ok"]]
                /\ IF m.agentId # Undefined
                   THEN /\ balance' = [balance EXCEPT ![m.agentId] =
                                CreditAgentBalance(@, WalletCredit(m.amount))]
                        /\ credited' = [credited EXCEPT ![m.agentId] =
                                @ + WalletCredit(m.amount)]
                   ELSE UNCHANGED <<balance, credited>>
           ELSE /\ gw' = [gw EXCEPT ![g] =
                            IF m.userId # Undefined /\ Len(c) > 0
                            THEN GwGoto(h, GwLoopNext(c, 1, 1))
                            ELSE [h EXCEPT !.pc = "done", !.resp = "ok"]]
                /\ UNCHANGED <<balance, credited>>
    /\ UNCHANGED <<role, isVerified, cart, orders, req, clock, sessions, hooks, applied, pay, vp, ack, adds, fmt, stats, inbox, added, now, version>>

\* Product.findById of the loop, then the order reference of the unit:
\* Date.now() gives t.
GwOrderRef(g, t) ==
    /\ gw[g].pc = "create"
    /\ t \in ClockReadings
    /\ now' = t
    /\ gw' = [gw EXCEPT ![g] = [@ EXCEPT !.pc = "save", !.ref = GwRef(t, gw[g].ui - 1)]]
    /\ UNCHANGED <<role, isVerified, balance, cart, orders, req, clock, sessions, hooks, applied,
                   credited, pay, vp, ack, adds, fmt, stats, inbox, added, version>>

\* storage.createCompletedOrder for the unit, up to the end of
\* newOrder.save(); createCompletedOrder throws "Product not found" into the
\* handler's catch, which answers 500.
GwCreateOrder(g) ==
    /\ gw[g].pc = "save"
    /\ LET m == sessions[gw[g].sess]
           item == m.cart[gw[g].li]
       IN  IF ~HasProduct(item.productId)
           THEN /\ gw' = [gw EXCEPT ![g] = [@ EXCEPT !.pc = "done", !.resp = "error"]]
                /\ UNCHANGED orders
           ELSE /\ orders' = Append(orders,
                       NewCompletedOrder(m.userId, item.productId, <<>>, LocalPhone(item),
                                         StatusOverride(item.productId, LocalPhone(item)),
                                         <<"paystack", gw[g].sess>>, gw[g].li))
                /\ gw' = [gw EXCEPT ![g] = [@ EXCEPT !.pc = "count", !.oid = Len(orders) + 1]]
    /\ UNCHANGED <<role, isVerified, balance, cart, req, clock, sessions, hooks, applied,
                   credited, pay, vp, ack, adds, fmt, stats, inbox, added, now, version>>

\* The rest of storage.createCompletedOrder: the $inc of the counters; then
\* the vendor call if there is a phone number, or the next unit.
GwCountOrder(g) ==
    /\ gw[g].pc = "count"
    /\ LET m == sessions[gw[g].sess]
           item == m.cart[gw[g].li]
           at == GwLoopNext(m.cart, gw[g].li, gw[g].ui + 1)
       IN  /\ stats' = [stats EXCEPT ![m.userId] =
                           StatsAfterCompletedOrder(@, FindProduct(item.productId))]
           /\ gw' = [gw EXCEPT ![g] =
                  IF Dispatches(item.productId, LocalPhone(item))
                  THEN [@ EXCEPT !.pc = "dispatch"]
                  ELSE GwGoto(@, at)]
    /\ UNCHANGED <<role, isVerified, balance, cart, orders, req, clock, sessions, hooks, applied, credited, pay, vp, ack, adds, fmt, inbox, added, now, version>>

\* Product.findById, newOrder.save() or the $inc rejects: nothing catches it
\* inside the loop, the handler's catch answers 500 and the loop is over; an
\* order that was saved stays.
GwStoreRejects(g) ==
    /\ gw[g].pc \in {"create", "save", "count"}
    /\ gw' = [gw EXCEPT ![g] = [@ EXCEPT !.pc = "done", !.resp = "error"]]
    /\ UNCHANGED <<role, isVerified, balance, cart, orders, req, clock, sessions, hooks, applied, credited, pay, vp, ack, adds, fmt, stats, inbox, added, now, version>>

\* portal02Service.purchaseDataBundleWithRetry with orderRef.
GwDispatch(g, reaction) ==
    /\ gw[g].pc = "dispatch"
    /\ clock' = clock + 1
    /\ LET item == sessions[gw[g].sess].cart[gw[g].li]
           out == Purchase(FindProduct(item.productId), reaction)
       IN  gw' = [gw EXCEPT ![g] =
                [@ EXCEPT !.pc = IF out.thrown THEN "catch" ELSE "persist",
                          !.vres = out.result]]
    /\ UNCHANGED <<role, isVerified, balance, cart, orders, req, sessions, hooks, applied, credited, pay, vp, ack, adds, fmt, stats, inbox, added, now, version>>

GwPersist(g) ==
    /\ gw[g].pc = "persist"
    /\ LET m == sessions[gw[g].sess]
           at == GwLoopNext(m.cart, gw[g].li, gw[g].ui + 1)
       IN  /\ orders' = [orders EXCEPT ![gw[g].oid] = RecordDispatch(@, gw[g].vres)]
           /\ gw' = [gw EXCEPT ![g] = GwGoto([@ EXCEPT !.vres = NoResult], at)]
    /\ UNCHANGED <<role, isVerified, balance, cart, req, clock, sessions, hooks, applied, credited, pay, vp, ack, adds, fmt, stats, inbox, added, now, version>>

\* Order.findByIdAndUpdate rejects: the catch around the vendor call and the
\* update is entered.
GwPersistFails(g) ==
    /\ gw[g].pc = "persist"
    /\ gw' = [gw EXCEPT ![g] = [@ EXCEPT !.pc = "catch"]]
    /\ UNCHANGED <<role, isVerified, balance, cart, orders, req, clock, sessions, hooks, applied, credited, pay, vp, ack, adds, fmt, stats, inbox, added, now, version>>

\* The catch: {$set: {status: "failed", paymentStatus: "success",
\* "processingResults.0": ...}} and the loop goes on; when this update
\* rejects too, the handler's catch answers 500.
GwCatch(g, rejected) ==
    /\ gw[g].pc = "catch"
    /\ LET m == sessions[gw[g].sess]
           at == GwLoopNext(m.cart, gw[g].li, gw[g].ui + 1)
       IN  IF rejected
           THEN /\ gw' = [gw EXCEPT ![g] =
                            [@ EXCEPT !.pc = "done", !.resp = "error", !.vres = NoResult]]
                /\ UNCHANGED orders
           ELSE /\ orders' = [orders EXCEPT ![gw[g].oid] =
                                 [RecordDispatchError(@) EXCEPT !.paymentStatus = "success"]]
                /\ gw' = [gw EXCEPT ![g] = GwGoto([@ EXCEPT !.vres = NoResult], at)]
    /\ UNCHANGED <<role, isVerified, balance, cart, req, clock, sessions, hooks, applied, credited, pay, vp, ack, adds, fmt, stats, inbox, added, now, version>>

\* storage.clearCart(userId), then res.json({status: true}).
GwClear(g) ==
    /\ gw[g].pc = "clear"
    /\ cart' = [cart EXCEPT ![sessions[gw[g].sess].userId] = ClearedCart(@)]
    /\ added' = [added EXCEPT ![sessions[gw[g].sess].userId] = <<>>]
    /\ gw' = [gw EXCEPT ![g] = [@ EXCEPT !.pc = "done", !.resp = "ok"]]
    /\ UNCHANGED <<role, isVerified, balance, orders, req, clock, sessions, hooks, applied, credited, pay, vp, ack, adds, fmt, stats, inbox, now, version>>

\* -------------------------------------------- POST /api/webhooks/portal02
ValidEvents == {"order.status.updated", "order.status_update"}
ValidStatuses == {"pending", "processing", "delivered", "failed", "cancelled",
                  "refunded", "resolved"}

\* Portal02Service.processWebhookPayload: reference = payload.reference || orderId
ProcessWebhookPayload(payload) ==
    IF payload.event \notin ValidEvents
    THEN [success |-> FALSE, error |-> "Unknown event"]
    ELSE IF payload.status \notin ValidStatuses
    THEN [success |-> FALSE, error |-> "Invalid status"]
    ELSE [success |-> TRUE, event |-> payload.event, orderId |-> payload.orderId,
          reference |-> OrElse(payload.reference, payload.orderId),
          status |-> payload.status]

\* Variant: "refunded" is not among the failed statuses.
OurStatusNoRefunded(status) ==
    IF status \in {"delivered", "resolved"} THEN "completed"
    ELSE IF status \in {"failed", "cancelled"} THEN "failed"
    ELSE "processing"

\* ourStatus
OurStatus(status) ==
    IF status \in {"delivered", "resolved"} THEN "completed"
    ELSE IF status \in {"failed", "cancelled", "refunded"} THEN "failed"
    ELSE "processing"

\* The $or filter of Order.findOneAndUpdate.  A filter value that is
\* undefined is sent to the store as null, and {field: null} matches a
\* document whose field is null or absent: None = None here.
MatchesOrder(o, orderId, reference) ==
    \/ o.vendorOrderId = orderId
    \/ o.vendorOrderId = reference
    \/ \E k \in 1..Len(o.processingResults) :
          \/ o.processingResults[k].transactionId = orderId
          \/ o.processingResults[k].transactionId = reference
          \/ o.processingResults[k].reference = orderId
          \/ o.processingResults[k].reference = reference

\* findOneAndUpdate updates the first matching document (0: none).
MatchedOrder(orderId, reference) ==
    LET hits == {i \in 1..Len(orders) : MatchesOrder(orders[i], orderId, reference)}
    IN  IF hits = {} THEN 0 ELSE CHOOSE i \in hits : \A j \in hits : i <= j

\* Variant: an order that already left "processing" keeps its status.
ApplyWebhookSticky(o, ev) ==
    [o EXCEPT !.status = IF o.status \in {"completed", "failed"} THEN o.status
                         ELSE OurStatus(ev.status),
              !.webhookHistory = Append(@, [event |-> ev.event, orderId |-> ev.orderId,
                                            reference |-> ev.reference,
                                            status |-> ev.status])]

\* Variant: the history keeps the latest event only.
ApplyWebhookLatestOnly(o, ev) ==
    [o EXCEPT !.status = OurStatus(ev.status),
              !.webhookHistory = <<[event |-> ev.event, orderId |-> ev.orderId,
                                    reference |-> ev.reference, status |-> ev.status]>>]

\* {$set: {status: ourStatus}, $push: {webhookHistory: {...}}}
ApplyWebhook(o, ev) ==
    [o EXCEPT !.status = OurStatus(ev.status),
              !.webhookHistory = Append(@, [event |-> ev.event, orderId |-> ev.orderId,
                                            reference |-> ev.reference,
                                            status |-> ev.status])]

\* Variant: an internal error is answered 500.
AckCodeSurfacing(outcome) == IF outcome = "error" THEN 500 ELSE 200

\* The status code of the answer: "Event ignored" for a rejected payload,
\* "OK" after the update (matched or not) and "OK" from the catch block.
AckCode(outcome) ==
    IF outcome = "ignored" THEN 200
    ELSE IF outcome = "error" THEN 200
    ELSE 200

\* The handler on a request body; fault: Order.findOneAndUpdate rejects (the
\* store is unreachable).
HandleVendorWebhook(payload, fault) ==
    /\ hooks < MaxWebhooks
    /\ hooks' = hooks + 1
    /\ LET ev == ProcessWebhookPayload(payload)
           i == IF ev.success /\ ~fault THEN MatchedOrder(ev.orderId, ev.reference) ELSE 0
           outcome == IF ~ev.success THEN "ignored"
                      ELSE IF fault THEN "error"
                      ELSE IF i = 0 THEN "unmatched" ELSE "updated"
       IN  /\ ack' = [outcome |-> outcome, code |-> AckCode(outcome)]
           /\ IF i = 0
              THEN UNCHANGED <<orders, applied>>
              ELSE /\ orders' = [orders EXCEPT ![i] = ApplyWebhook(@, ev)]
                   /\ applied' = applied \cup {<<i, ev, orders'[i].status>>}
    /\ UNCHANGED <<role, isVerified, balance, cart, req, clock, sessions, gw, credited, pay, vp, adds, fmt, stats, added, now, version>>

\* A request that arrives and is handled at once.
VendorWebhook(payload, fault) ==
    /\ HandleVendorWebhook(payload, fault)
    /\ UNCHANGED inbox

\* A request arrives at the route (one at a time), and the handler runs on
\* it when it is scheduled.
NoRequest == [event |-> "none", orderId |-> None, reference |-> None, status |-> "none"]

WebhookArrives(payload) ==
    /\ inbox = NoRequest
    /\ hooks < MaxWebhooks
    /\ inbox' = payload
    /\ UNCHANGED <<role, isVerified, balance, cart, orders, req, clock, sessions, gw, hooks, applied,
                   credited, pay, vp, ack, adds, fmt, stats, added, now, version>>

WebhookHandled ==
    /\ inbox # NoRequest
    /\ \E fault \in BOOLEAN : HandleVendorWebhook(inbox, fault)
    /\ inbox' = NoRequest

\* What a webhook request may carry: ids the vendor has handed out (or none),
\* references sent with a purchase (or none).
WebhookEvents == {"order.status.updated", "ping"}
WebhookStatuses == ValidStatuses \cup {"bogus"}
WebhookIds == {None} \cup 1..clock
WebhookRefs == {None}
Payloads == [event : WebhookEvents, orderId : WebhookIds, reference : WebhookRefs,
             status : WebhookStatuses]

\* -------------------------------------------------- POST /api/orders/pay
\* verifyJWT: req.user is the token's payload, {id, username, role}.
Token(u) == [id |-> u, username |-> u, role |-> role[u]]

\* user.f || dflt for a field the object may not have
FieldOr(user, f, dflt) == IF f \in DOMAIN user THEN user[f] ELSE dflt

\* The answer of /api/orders/pay, PAYSTACK_SECRET_KEY being set (configured)
\* or not.  The wallet branch decides on user.balance; the check of the
\* secret (500 "Paystack not configured") comes after the wallet branch and
\* before the Paystack request is built; both the debit and the Paystack
\* metadata read user._id.toString().
PayOutcome(user, pid, useWallet, configured) ==
    IF user.role = "agent" /\ ~FieldOr(user, "isVerified", FALSE) THEN "Forbidden"
    ELSE IF ~HasProduct(pid) THEN "NotFound"
    ELSE IF useWallet /\ user.role \in {"agent", "admin"}
         THEN LET bal == FieldOr(user, "balance", 0)
                  priceForRole == PerItemPrice(user.role, FindProduct(pid))
              IN  IF PriceOr0(priceForRole) = 0 \/ bal < priceForRole[1]
                  THEN "InsufficientFunds"
                  ELSE IF "_id" \in DOMAIN user THEN "ok" ELSE "crash"
    ELSE IF ~configured THEN "NotConfigured"
    ELSE IF "_id" \in DOMAIN user THEN "session" ELSE "PaystackFailed"

\* amountToCharge, the amount property of the body built for Paystack; <<>>
\* when the product has no price for the role.
PayAmountToCharge(user, pid) == PerItemPrice(user.role, FindProduct(pid))

\* Whether the route hands a request to Paystack: the body of the request
\* is built before fetch is called, and user._id.toString() in it throws for
\* a user object without _id, so that fetch is not called ("PaystackFailed").
PayBuildsGatewayRequest(user, pid, useWallet, configured) ==
    PayOutcome(user, pid, useWallet, configured) = "session"

NoPay == [resp |-> "none", user |-> "u1", productId |-> "p1", useWallet |-> FALSE,
          configured |-> TRUE, stored |-> 0, amount |-> <<>>]

\* The run's scheduling bound: orders.create requests are handled one at a time.
NoCreateRunning == pay.resp # "counting"

\* No answer of the route changes the store: the debit and the order of the
\* wallet branch come after user._id.toString().
PayOrder(u, pid, useWallet, configured) ==
    /\ NoCreateRunning
    /\ PayOutcome(Token(u), pid, useWallet, configured) \notin {"ok", "session"}
    /\ pay' = [resp |-> PayOutcome(Token(u), pid, useWallet, configured), user |-> u,
               productId |-> pid, useWallet |-> useWallet, configured |-> configured,
               stored |-> balance[u],
               amount |-> IF PayBuildsGatewayRequest(Token(u), pid, useWallet, configured)
                          THEN PayAmountToCharge(Token(u), pid) ELSE <<>>]
    /\ UNCHANGED <<role, isVerified, balance, cart, orders, req, clock, sessions, gw, hooks, applied,
                   credited, vp, ack, adds, fmt, stats, inbox, added, now, version>>

\* ------------------------------------------------ POST orders.create
\* The agent check on req.user, the product lookup, storage.createOrder
\* with the role price; createOrder throws "Product not found" into the
\* route's catch (500).
CreateOutcome(user, pid) ==
    IF user.role = "agent" /\ ~FieldOr(user, "isVerified", FALSE) THEN "Forbidden"
    ELSE IF ~HasProduct(pid) THEN "error"
    ELSE "created"

\* storage.createOrder: the Order document it saves.
NewOrder(u, pid, priceOverride) ==
    [NewCompletedOrder(u, pid, priceOverride, NoPhone, Undefined, <<"create", 0>>, 0)
        EXCEPT !.status = "pending", !.paymentStatus = "pending"]

\* The route up to the end of newOrder.save() ("counting": the order is
\* saved and the $inc of the counters is still to come).
CreateOrder(u, pid) ==
    /\ NoCreateRunning
    /\ Len(orders) < MaxUnits
    /\ LET out == CreateOutcome(Token(u), pid)
       IN  /\ pay' = [resp |-> IF out = "created" THEN "counting" ELSE out, user |-> u,
                      productId |-> pid, useWallet |-> FALSE, configured |-> TRUE,
                      stored |-> balance[u], amount |-> <<>>]
           /\ orders' = IF out = "created"
                        THEN Append(orders,
                                 NewOrder(u, pid, PerItemPrice(role[u], FindProduct(pid))))
                        ELSE orders
    /\ UNCHANGED <<role, isVerified, balance, cart, req, clock, sessions, gw, hooks, applied, credited,
                   vp, ack, adds, fmt, stats, inbox, added, now, version>>

\* The rest of storage.createOrder: the $inc of the counters, and the answer
\* 201; when the $inc rejects the route's catch answers 500 and the order
\* stays.
CreateOrderCount(rejected) ==
    /\ pay.resp = "counting"
    /\ pay' = [pay EXCEPT !.resp = IF rejected THEN "error" ELSE "created"]
    /\ stats' = IF rejected THEN stats
                ELSE [stats EXCEPT ![pay.user] =
                         StatsAfterCreateOrder(@, FindProduct(pay.productId))]
    /\ UNCHANGED <<role, isVerified, balance, cart, orders, req, clock, sessions, gw, hooks, applied,
                   credited, vp, ack, adds, fmt, inbox, added, now, version>>

\* ---------------------------------------------------------------- Init
IdleReq == [pc |-> "idle", user |-> "u1", method |-> "wallet", cart |-> <<>>,
            balRead |-> 0, li |-> 0, ui |-> 0, oid |-> 0, vres |-> NoResult,
            resp |-> "none", debited |-> 0, calls |-> 0, faults |-> 0]
IdleGw == [pc |-> "idle", sess |-> 0, sig |-> NoSignature, configured |-> TRUE, li |-> 0,
           ui |-> 0, oid |-> 0, ref |-> None, vres |-> NoResult, resp |-> "none"]

Init ==
    /\ \E origin \in [Users -> {"seed"} \cup BodyRoles] :
          /\ role = [u \in Users |-> Account(origin[u]).role]
          /\ isVerified = [u \in Users |-> Account(origin[u]).isVerified]
    /\ balance = [u \in Users |-> 0]
    /\ cart = [u \in Users |-> <<>>]
    /\ orders = <<>>
    /\ req = [r \in Reqs |-> IdleReq]
    /\ clock = 0
    /\ sessions = <<>>
    /\ gw = [g \in Gws |-> IdleGw]
    /\ hooks = 0
    /\ applied = {}
    /\ credited = [u \in Users |-> 0]
    /\ pay = NoPay
    /\ vp = IdleCall
    /\ ack = [outcome |-> "none", code |-> 0]
    /\ adds = [a \in Adds |-> IdleAdd]
    /\ fmt = NoFormat
    /\ stats = [u \in Users |-> NoStats]
    /\ inbox = NoRequest
    /\ added = [u \in Users |-> <<>>]
    /\ now = 0
    /\ version = [u \in Users |-> 0]

\* Add-to-cart requests (two may overlap) that are answered before the first
\* checkout of the run starts.
AddRequests(inputs, quantities) ==
    \/ \E a \in Adds, u \in Users, i \in inputs, q \in quantities :
          /\ NoCheckoutRunning /\ AddInOrder(a) /\ AddsBegun(u) < MaxAdds
          /\ AddFind(a, u, i[1], q, i[2])
    \/ \E a \in Adds : AddSave(a)
    \/ \E a \in Adds : AddAnswer(a)

\* Cart checkout, wallet and Paystack, with concurrent requests, against a
\* store that may reject a write of the fan-out loop.
Prepare ==
    \/ AddRequests(AddInputs, AddQuantities)
    \/ \E u \in Users, a \in CreditAmounts : NoCheckoutRunning /\ AdminLoadWallet(u, a)

WalletSteps(r) ==
    \/ CheckoutReadBalance(r)
    \/ CheckoutDebit(r)
    \/ CheckoutCreateOrder(r)
    \/ CheckoutCountOrder(r)
    \/ CheckoutPersist(r)
    \/ CheckoutClear(r)

\* A wallet checkout against a vendor that answers in every way, and one
\* against a vendor that accepts or refuses.
WalletCheckout(r) ==
    \/ WalletSteps(r)
    \/ \E reaction \in VendorReplies(clock + 1, WalletRef(req[r].oid)) :
          CheckoutDispatch(r, reaction)

WalletCheckoutPlain(r) ==
    \/ WalletSteps(r)
    \/ \E reaction \in PlainReplies(clock + 1, WalletRef(req[r].oid)) :
          CheckoutDispatch(r, reaction)

\* Writes of the checkout that the store rejects.
StoreFaults(r) ==
    \/ CheckoutCreateOrderFails(r)
    \/ CheckoutCountFails(r)
    \/ CheckoutPersistFails(r)
    \/ \E rejected \in BOOLEAN : CheckoutCatch(r, rejected)

Checkout(r) ==
    \/ WalletCheckoutPlain(r)
    \/ StoreFaults(r)
    \/ \E reply \in PaystackReplies : CheckoutInitSession(r, reply)

Next ==
    \/ Prepare
    \/ \E r \in Reqs, u \in Users, m \in {"wallet", "paystack"} :
          NoAddRunning /\ InOrder(r) /\ CheckoutBegin(r, u, m)
    \/ \E r \in Reqs : Checkout(r)

Spec == Init /\ [][Next]_vars

\* Paystack payments: one checkout, the charge.success deliveries for its session.
\* Delivery slots are taken in order.
GwInOrder(g) == IF g = 1 THEN TRUE ELSE gw[g - 1].pc # "idle"

GwSteps(g) ==
    \/ \E t \in ClockReadings : GwOrderRef(g, t)
    \/ GwCreateOrder(g)
    \/ GwCountOrder(g)
    \/ GwPersist(g)
    \/ GwClear(g)

GwFulfilment(g) ==
    \/ GwSteps(g)
    \/ \E reaction \in VendorReplies(clock + 1, gw[g].ref) : GwDispatch(g, reaction)

GwFulfilmentPlain(g) ==
    \/ GwSteps(g)
    \/ \E reaction \in PlainReplies(clock + 1, gw[g].ref) : GwDispatch(g, reaction)

\* Writes of the webhook handler that the store rejects.
GwStoreFaults(g) ==
    \/ GwStoreRejects(g)
    \/ GwPersistFails(g)
    \/ \E rejected \in BOOLEAN : GwCatch(g, rejected)

PaystackWebhook(g) ==
    \/ \E s \in 1..Len(sessions) : GwInOrder(g) /\ GwBegin(g, s, Hmac(s), TRUE)
    \/ GwFulfilmentPlain(g)

NextPaystack ==
    \/ AddRequests(AddInputs, AddQuantities)
    \/ \E u \in Users : NoAddRunning /\ CheckoutBegin(1, u, "paystack")
    \/ \E reply \in PaystackReplies : CheckoutInitSession(1, reply)
    \/ \E g \in Gws : PaystackWebhook(g)

SpecPaystack == Init /\ [][NextPaystack]_vars

\* The gateway's side: sessions for a cart checkout and for wallet funding,
\* and deliveries of charge.success with good, forged and missing signatures,
\* with and without the secret configured, handled one at a time.
NoDeliveryBegun == \A g \in Gws : gw[g].pc = "idle"
GwOneAtATime(g) == IF g = 1 THEN TRUE ELSE gw[g - 1].pc = "done"

GatewayDelivery(g) ==
    \/ \E s \in 1..Len(sessions) : \E sig \in Signatures(s), configured \in BOOLEAN :
          GwOneAtATime(g) /\ GwBegin(g, s, sig, configured)
    \/ GwFulfilment(g)

PhoneAddInputs == {<<"p1", Phone>>}

NextGateway ==
    \/ AddRequests(PhoneAddInputs, 1..MaxUnits)
    \/ \E u \in Users :
          /\ NoAddRunning /\ NoDeliveryBegun /\ Len(sessions) < MaxSessions
          /\ CheckoutBegin(1, u, "paystack")
    \/ \E reply \in {"accepted", "refused"} : CheckoutInitSession(1, reply)
    \/ \E u \in Users, a \in FundingAmounts, reply \in PaystackReplies :
          NoDeliveryBegun /\ PaystackInitialize(u, a, reply)
    \/ \E g \in Gws : GatewayDelivery(g)

SpecGateway == Init /\ [][NextGateway]_vars

\* The cart routes of one user: add requests, which may overlap, remove
\* and clear.
CartAddInputs == {<<"p1", Phone>>, <<"p1", NoPhone>>, <<"p1", EmptyPhone>>, <<"p1", Null>>,
                  <<"p2", NoPhone>>}
CartProducts == {"p1", "p2"}

NextCart ==
    \/ \E a \in Adds, u \in Users, i \in CartAddInputs, q \in AddQuantities :
          /\ AddInOrder(a) /\ AddsBegun(u) < MaxAdds + 1 /\ version[u] <= MaxAdds
          /\ AddFind(a, u, i[1], q, i[2])
    \/ \E a \in Adds : AddSave(a)
    \/ \E a \in Adds : AddAnswer(a)
    \/ \E u \in Users, pid \in CartProducts : NoAddRunning /\ RemoveFromCart(u, pid)
    \/ \E u \in Users : NoAddRunning /\ ClearCart(u)

SpecCart == Init /\ [][NextCart]_vars

\* Calls of formatPhoneNumber on the phone numbers users type.
NextPhone ==
    \E prefix \in PhonePrefixes, sep \in PhoneSeparators, body \in SubscriberNumbers :
        FormatPhone(prefix, sep, body)

SpecPhone == Init /\ [][NextPhone]_vars

\* Vendor status webhooks that quote the ids the vendor handed out, with the
\* handler scheduled fairly.
QuotingPayloads == [event : {"order.status.updated"}, orderId : 1..clock, reference : {None},
                    status : ValidStatuses \ {"pending"}]

NextVendorLive ==
    \/ AddRequests(PhoneAddInputs, 1..MaxUnits)
    \/ \E u \in Users, a \in CreditAmounts : NoCheckoutRunning /\ AdminLoadWallet(u, a)
    \/ \E u \in Users : NoAddRunning /\ CheckoutBegin(1, u, "wallet")
    \/ WalletCheckout(1)
    \/ \E payload \in QuotingPayloads : WebhookArrives(payload)
    \/ WebhookHandled

SpecVendorLive == Init /\ [][NextVendorLive]_vars /\ WF_vars(WebhookHandled)

\* A wallet checkout of a user who goes on adding to the cart meanwhile: two
\* lines are in the cart and an increment of the second is on its way when
\* the checkout empties the cart.
LateAddInputs == {<<"p1", Phone>>, <<"p2", NoPhone>>}

NextLateAdd ==
    \/ \E a \in Adds, u \in Users, i \in LateAddInputs, q \in 1..MaxUnits :
          AddInOrder(a) /\ AddsBegun(u) < MaxAdds + 1 /\ AddFind(a, u, i[1], q, i[2])
    \/ \E a \in Adds : AddSave(a)
    \/ \E a \in Adds : AddAnswer(a)
    \/ \E u \in Users, a \in CreditAmounts : NoCheckoutRunning /\ AdminLoadWallet(u, a)
    \/ \E u \in Users : CheckoutBegin(1, u, "wallet")
    \/ WalletCheckout(1)

SpecLateAdd == Init /\ [][NextLateAdd]_vars

\* Vendor status webhooks against the orders of one wallet checkout.
NextVendor ==
    \/ AddRequests(PhoneAddInputs, AddQuantities)
    \/ \E u \in Users, a \in CreditAmounts : NoCheckoutRunning /\ AdminLoadWallet(u, a)
    \/ \E u \in Users : NoAddRunning /\ CheckoutBegin(1, u, "wallet")
    \/ WalletCheckout(1)
    \/ \E payload \in Payloads, fault \in BOOLEAN : VendorWebhook(payload, fault)

SpecVendor == Init /\ [][NextVendor]_vars

\* Wallet payments, by cart checkout and by single-item pay, against a
\* wallet that is being loaded.
PayProducts == {"p1", "s1", "gone"}
CreateProducts == {"p1", "gone"}

NextPay ==
    \/ AddRequests(PhoneAddInputs, 1..MaxUnits)
    \/ \E u \in Users, a \in CreditAmounts : AdminLoadWallet(u, a)
    \/ \E u \in Users : NoAddRunning /\ CheckoutBegin(1, u, "wallet")
    \/ WalletCheckoutPlain(1)
    \/ \E u \in Users, pid \in PayProducts, w \in BOOLEAN, configured \in BOOLEAN :
          PayOrder(u, pid, w, configured)
    \/ \E u \in Users, pid \in CreateProducts : CreateOrder(u, pid)
    \/ \E rejected \in BOOLEAN : CreateOrderCount(rejected)
    \/ \E u \in Users : VerifyAgent(u)

SpecPay == Init /\ [][NextPay]_vars

\* Money at the gateway's boundary: the session of a cart checkout, wallet
\* funding sessions and the deliveries of charge.success for them, and
\* single-item pay.
NextMoney ==
    \/ AddRequests(PhoneAddInputs, 1..MaxUnits)
    \/ \E u \in Users : NoAddRunning /\ NoDeliveryBegun /\ CheckoutBegin(1, u, "paystack")
    \/ \E reply \in {"accepted", "refused"} : CheckoutInitSession(1, reply)
    \/ \E u \in Users, a \in FundingAmounts :
          NoDeliveryBegun /\ PaystackInitialize(u, a, "accepted")
    \/ \E s \in 1..Len(sessions) : GwBegin(1, s, Hmac(s), TRUE)
    \/ GwFulfilmentPlain(1)
    \/ \E u \in Users, pid \in {"p1", "gone"}, configured \in BOOLEAN :
          NoDeliveryBegun /\ PayOrder(u, pid, FALSE, configured)

SpecMoney == Init /\ [][NextMoney]_vars

\* The counters of a user over the day's end: orders created by orders.create,
\* by a wallet checkout and by the delivery of charge.success, and the daily
\* reset, which the timer may run between any two steps.
TotalsProducts == {"p1", "p3", "p4"}

NextTotals ==
    \/ AddRequests(PhoneAddInputs, {1})
    \/ \E u \in Users, a \in CreditAmounts : NoCheckoutRunning /\ AdminLoadWallet(u, a)
    \/ \E u \in Users, m \in {"wallet", "paystack"} : NoAddRunning /\ CheckoutBegin(1, u, m)
    \/ WalletCheckoutPlain(1)
    \/ CheckoutInitSession(1, "accepted")
    \/ \E s \in 1..Len(sessions) : GwBegin(1, s, Hmac(s), TRUE)
    \/ GwFulfilmentPlain(1)
    \/ \E u \in Users, pid \in TotalsProducts : CreateOrder(u, pid)
    \/ \E rejected \in BOOLEAN : CreateOrderCount(rejected)
    \/ ResetDailyTotals

SpecTotals == Init /\ [][NextTotals]_vars

\* A checkout by either method, and the delivery of charge.success for its
\* session, against a store that may reject a write.
FaultAddInputs == {<<"p1", Phone>>, <<"p2", NoPhone>>, <<"s1", Phone>>}

NextFaults ==
    \/ AddRequests(FaultAddInputs, AddQuantities)
    \/ \E u \in Users, a \in CreditAmounts : NoCheckoutRunning /\ AdminLoadWallet(u, a)
    \/ \E u \in Users, m \in {"wallet", "paystack"} : NoAddRunning /\ CheckoutBegin(1, u, m)
    \/ WalletCheckout(1)
    \/ StoreFaults(1)
    \/ CheckoutInitSession(1, "accepted")
    \/ \E s \in 1..Len(sessions) : GwBegin(1, s, Hmac(s), TRUE)
    \/ GwFulfilment(1)
    \/ GwStoreFaults(1)

SpecFaults == Init /\ [][NextFaults]_vars

\* One call of purchaseDataBundleWithRetry against a vendor that may accept,
\* reject or be unreachable at every attempt.
NextRetry ==
    \/ \E size \in BundleSizes, network \in BundleNetworks : RetryBegin(size, network)
    \/ \E reaction \in Reactions : RetryAttempt(reaction)

SpecRetry == Init /\ [][NextRetry]_vars

\* ================================================================ claims
OrdersBy(tag) == {i \in 1..Len(orders) : orders[i].by = tag}
OrdersOfLine(tag, l) == {i \in OrdersBy(tag) : orders[i].line = l}
SessionsBy(r) == {s \in 1..Len(sessions) : sessions[s].by = r}
Total(r) == CartTotal(role[req[r].user], req[r].cart)
\* The role's unit price of a product, as the total counts it.
RolePrice(rl, pid) == PriceOr0(PerItemPrice(rl, Catalog[pid]))
\* The sum of the quantities of the lines of a cart.
CartQuantity(c) == SumSeq([i \in 1..Len(c) |-> c[i].quantity])
\* The units of a line, for the claims that speak of "every unit": its
\* quantity, and none when the quantity is not positive.
LineUnits(line) == IF line.quantity > 0 THEN line.quantity ELSE 0

\* What a rejected checkout must leave behind: no debit, no order, no
\* vendor call, no payment session.
NoSideEffects(r) ==
    /\ req[r].debited = 0
    /\ req[r].calls = 0
    /\ OrdersBy(<<"checkout", r>>) = {}
    /\ SessionsBy(r) = {}

\* C1: wallet payments running concurrently for one agent never drive the
\* stored balance below zero.
C1_BalanceNeverNegative == \A u \in Users : balance[u] >= 0

\* C2: a wallet checkout by an agent that reaches the funds check succeeds
\* exactly when the balance it read is at least the cart total; with less it
\* answers InsufficientFunds and debits nothing and creates nothing; with
\* exactly the total it succeeds and the balance afterwards is 0.
C2_SucceedsIffFunded ==
    \A r \in Reqs :
        (req[r].method = "wallet" /\ req[r].pc \in {"done", "crashed"}
            /\ req[r].resp \notin {"EmptyCart", "Forbidden"}) =>
        /\ (req[r].resp = "ok") <=> (req[r].balRead >= Total(r))
        /\ (req[r].balRead < Total(r)) =>
              (req[r].resp = "InsufficientFunds" /\ NoSideEffects(r))
        /\ (req[r].resp = "ok" /\ req[r].balRead = Total(r)) =>
              balance[req[r].user] = 0

\* C3: a checkout of an empty cart, by either payment method and by a caller
\* of any role (the empty cart is looked at before the role), answers
\* EmptyCart and has no effect: no debit, no order, no vendor call, no
\* payment session, then or later; the step that answers leaves the balance,
\* the orders, the vendor's counter, the sessions and the cart as they were.
EmptyCartAnswered ==
    \A r \in Reqs :
        (req[r].pc # "idle" /\ req[r].cart = <<>>) =>
            (req[r].pc = "done" /\ req[r].resp = "EmptyCart" /\ NoSideEffects(r))

EmptyCartChangesNothing ==
    \A r \in Reqs :
        (req[r].pc = "idle" /\ req'[r].pc # "idle" /\ req'[r].cart = <<>>)
        => UNCHANGED <<balance, orders, clock, sessions, cart>>

C3_EmptyCartRejected ==
    []EmptyCartAnswered /\ [][EmptyCartChangesNothing]_vars

C3_Witness ==
    /\ req[1].resp = "EmptyCart" /\ req[2].resp = "EmptyCart"
    /\ req[1].method # req[2].method
    /\ role[req[1].user] # "agent" /\ role[req[2].user] # "agent"

\* C4: in a successful wallet checkout a cart line of quantity N has exactly
\* N orders, each for the line's product and phone at the role's unit price
\* of that product; the checkout has as many orders as the cart has units.
C4_OneOrderPerUnit ==
    \A r \in Reqs :
        (req[r].method = "wallet" /\ req[r].resp = "ok") =>
        LET c == req[r].cart
            u == req[r].user
            tag == <<"checkout", r>>
        IN  /\ Cardinality(OrdersBy(tag)) = CartQuantity(c)
            /\ \A l \in 1..Len(c) :
                  /\ Cardinality(OrdersOfLine(tag, l)) = c[l].quantity
                  /\ \A i \in OrdersOfLine(tag, l) :
                        /\ orders[i].userId = u
                        /\ orders[i].productId = c[l].productId
                        /\ orders[i].phoneNumber = c[l].phoneNumber
                        /\ orders[i].price = RolePrice(role[u], c[l].productId)

\* C5: however often the gateway delivers charge.success for one payment,
\* the payment has at most one order per purchased unit.
PaidUnits(c) ==
    SumSeq([i \in 1..Len(c) |-> IF HasProduct(c[i].productId) THEN LineUnits(c[i]) ELSE 0])

C5_OneOrderPerPaidUnit ==
    \A s \in 1..Len(sessions) :
        Cardinality(OrdersBy(<<"paystack", s>>)) <= PaidUnits(sessions[s].cart)

\* C6: handling the same vendor webhook twice gives the order the same
\* status as handling it once: every application of one event to one order
\* gave that order the same status.
C6_SameWebhookSameStatus ==
    \A a \in applied, b \in applied :
        (a[1] = b[1] /\ a[2] = b[2]) => a[3] = b[3]

C6_Witness ==
    \E i \in 1..Len(orders) :
        /\ Len(orders[i].webhookHistory) >= 2
        /\ orders[i].webhookHistory[1] = orders[i].webhookHistory[2]

\* C7: the status a vendor webhook gives an order is completed for
\* delivered and resolved, failed for failed, cancelled and refunded, and
\* processing for every other accepted vendor status.
C7_StatusMapping ==
    \A a \in applied :
        /\ a[2].status \in {"delivered", "resolved"} => a[3] = "completed"
        /\ a[2].status \in {"failed", "cancelled", "refunded"} => a[3] = "failed"
        /\ a[2].status \in {"pending", "processing"} => a[3] = "processing"
        /\ a[2].status \in ValidStatuses

C7_Witness ==
    \E a \in applied, b \in applied :
        /\ a[2].status = "resolved" /\ a[3] = "completed"
        /\ b[2].status = "refunded" /\ b[3] = "failed"

\* C8: a vendor webhook that is rejected, or whose orderId and reference
\* name no order at the moment it is handled, changes no order: an order
\* changes under a webhook request only when one of its vendor identifiers
\* is the orderId or the reference the request carried.
OrderIds(o) ==
    ({o.vendorOrderId}
        \cup {o.processingResults[k].transactionId : k \in 1..Len(o.processingResults)}
        \cup {o.processingResults[k].reference : k \in 1..Len(o.processingResults)})
    \ {None}

C8_UnmatchedWebhookChangesNothing ==
    [][hooks' = hooks + 1 =>
          \A i \in 1..Len(orders) :
              orders'[i] # orders[i] =>
                  LET h == orders'[i].webhookHistory
                      e == h[Len(h)]
                  IN  /\ e.event \in ValidEvents
                      /\ e.status \in ValidStatuses
                      /\ ({e.orderId, e.reference} \ {None}) \cap OrderIds(orders[i]) # {}]_vars

\* C9: a failed vendor dispatch in a wallet checkout keeps the order, with
\* status failed, keeps the debit (the balance is what was credited minus
\* every debit made), and the loop goes on: a checkout that answers ok has an
\* order for every unit and a dispatch result on every order with a phone.
\* (The units of a line are its quantity, and none when the quantity is not
\* positive.)
DebitsOf(u) == SumSeq([r \in 1..Cardinality(Reqs) |->
                          IF req[r].user = u THEN req[r].debited ELSE 0])

C9_FailedDispatchKeepsGoing ==
    /\ \A u \in Users : balance[u] = credited[u] - DebitsOf(u)
    /\ \A i \in 1..Len(orders) :
          (orders[i].processingResults # <<>> /\ ~orders[i].processingResults[1].success
              /\ orders[i].webhookHistory = <<>>) =>
          (orders[i].status = "failed" /\ orders[i].vendorOrderId = None)
    /\ \A r \in Reqs :
          (req[r].method = "wallet" /\ req[r].resp = "ok") =>
                /\ \A l \in 1..Len(req[r].cart) :
                      Cardinality(OrdersOfLine(<<"checkout", r>>, l))
                          = LineUnits(req[r].cart[l])
                /\ \A i \in OrdersBy(<<"checkout", r>>) :
                      orders[i].phoneNumber # NoPhone => orders[i].processingResults # <<>>

\* C10 (as stated): a wallet checkout by a non-agent answers Forbidden and
\* has no effect.
C10_NonAgentForbidden ==
    \A r \in Reqs :
        (req[r].pc # "idle" /\ req[r].method = "wallet" /\ role[req[r].user] # "agent") =>
            (req[r].pc = "done" /\ req[r].resp = "Forbidden" /\ NoSideEffects(r))

\* C10 (amended): a wallet checkout of a non-empty cart by a non-agent
\* answers Forbidden and has no effect: no debit, no order, no vendor call,
\* no payment session, the cart as it was.  (An empty cart is answered
\* EmptyCart before the role is looked at.)
C10_NonAgentForbiddenNonEmpty ==
    \A r \in Reqs :
        (req[r].pc # "idle" /\ req[r].method = "wallet" /\ role[req[r].user] # "agent"
            /\ req[r].cart # <<>>) =>
            /\ req[r].pc = "done" /\ req[r].resp = "Forbidden"
            /\ NoSideEffects(r)
            /\ GetCart(cart[req[r].user]) = req[r].cart
            /\ balance[req[r].user] = credited[req[r].user]

C10_Witness ==
    \E r \in Reqs :
        /\ req[r].method = "wallet" /\ role[req[r].user] = "user"
        /\ req[r].cart # <<>> /\ req[r].resp = "Forbidden"

\* C11: a cart line whose product is missing is skipped and is no error: a
\* funded wallet checkout of a cart that mixes present and missing products
\* never ends in an
\* uncaught error, and when it is over it has answered ok, debited the
\* total of the present lines and created orders for the present lines only.
MixedCart(c) ==
    /\ \E l \in 1..Len(c) : ~HasProduct(c[l].productId)
    /\ \E l \in 1..Len(c) : HasProduct(c[l].productId)

C11_MissingProductSkipped ==
    \A r \in Reqs :
        (req[r].method = "wallet" /\ MixedCart(req[r].cart)
            /\ req[r].pc \notin {"idle", "balance", "debit"}
            /\ req[r].resp \notin {"Forbidden", "InsufficientFunds"}) =>
        /\ req[r].pc # "crashed"
        /\ req[r].debited = Total(r)
        /\ req[r].pc = "done" =>
              /\ req[r].resp = "ok"
              /\ Cardinality(OrdersBy(<<"checkout", r>>)) = PaidUnits(req[r].cart)

\* C12: in every wallet payment path the sufficient-funds decision compares
\* the amount with the balance the store holds at the time of the request:
\* a cart checkout answers InsufficientFunds exactly when the balance it read
\* from the store is below the total, and a single-item wallet payment
\* answers InsufficientFunds exactly when the stored balance is below the
\* role's price of the product.
C12_FundsDecisionUsesStore ==
    /\ \A r \in Reqs :
          (req[r].method = "wallet" /\ req[r].pc \notin {"idle", "balance"}
              /\ req[r].resp \notin {"EmptyCart", "Forbidden"}) =>
          ((req[r].resp = "InsufficientFunds") <=> (req[r].balRead < Total(r)))
    /\ (pay.resp \notin {"none", "Forbidden", "NotFound"} /\ pay.useWallet
          /\ role[pay.user] \in {"agent", "admin"}) =>
          ((pay.resp = "InsufficientFunds")
              <=> (pay.stored < RolePrice(role[pay.user], pay.productId)))

\* C13: a checkout with the gateway payment method creates no order, makes
\* no vendor call, leaves the wallet balance and the cart as they are; all it
\* does is initialise one payment session whose metadata holds type order,
\* the user id and the cart it read.
C13_GatewayCheckoutOnlyInitialises ==
    [][\A r \in Reqs :
          (req'[r] # req[r] /\ req'[r].method = "paystack") =>
              /\ cart' = cart /\ balance' = balance /\ orders' = orders /\ clock' = clock
              /\ req'[r].debited = 0 /\ req'[r].calls = 0
              /\ IF req'[r].resp = "session"
                 THEN /\ Len(sessions') = Len(sessions) + 1
                      /\ LET m == sessions'[Len(sessions')]
                         IN  /\ m.type = "order" /\ m.userId = req[r].user
                             /\ m.cart = req[r].cart /\ m.cart # <<>>
                      /\ \A k \in 1..Len(sessions) : sessions'[k] = sessions[k]
                 ELSE sessions' = sessions]_vars

C13_Witness ==
    \E r \in Reqs :
        /\ req[r].method = "paystack" /\ req[r].resp = "session"
        /\ SessionsBy(r) # {}
        /\ OrdersBy(<<"checkout", r>>) = {}
        /\ cart[req[r].user] = req[r].cart
        /\ Len(req[r].cart) = 2

\* C14: on charge.success for an order payment, fulfilment is as in wallet
\* checkout: every order of the payment is for a line of the cart snapshot
\* and carries the owning user's role price of that line's product, and a
\* delivery that was answered ok has left an order for every unit of every
\* line, a dispatch result on every order with a phone, and the cart empty
\* at the time it answered.
C14_GatewayFulfilmentAsWallet ==
    /\ \A s \in 1..Len(sessions) : \A i \in OrdersBy(<<"paystack", s>>) :
          LET c == sessions[s].cart
              l == orders[i].line
          IN  /\ l \in 1..Len(c)
              /\ orders[i].productId = c[l].productId
              /\ orders[i].phoneNumber = c[l].phoneNumber
              /\ orders[i].userId = sessions[s].userId
              /\ orders[i].price = RolePrice(role[sessions[s].userId], c[l].productId)
    /\ \A g \in Gws :
          (gw[g].pc = "done" /\ gw[g].resp = "ok") =>
              LET c == sessions[gw[g].sess].cart
                  tag == <<"paystack", gw[g].sess>>
              IN  /\ \A l \in 1..Len(c) :
                        Cardinality(OrdersOfLine(tag, l)) >= c[l].quantity
                  /\ \A i \in OrdersBy(tag) :
                        (orders[i].phoneNumber # NoPhone /\ i <= gw[g].oid) =>
                            orders[i].processingResults # <<>>

\* C15: in wallet checkout the cart changes at one step only, the one that
\* answers success: at that step every unit of the batch has its order, every
\* order with a phone has its dispatch result recorded, and the cart becomes
\* empty; every other step, the failing answers EmptyCart, Forbidden and
\* InsufficientFunds among them, leaves the cart as it is.
BatchRecorded(r) ==
    /\ \A l \in 1..Len(req[r].cart) :
          Cardinality(OrdersOfLine(<<"checkout", r>>, l)) = LineUnits(req[r].cart[l])
    /\ \A i \in OrdersBy(<<"checkout", r>>) :
          orders[i].phoneNumber # NoPhone => orders[i].processingResults # <<>>

C15_CartClearedLast ==
    [][\A r \in Reqs :
          (req'[r] # req[r] /\ req'[r].method = "wallet") =>
              IF req'[r].resp = "ok"
              THEN BatchRecorded(r) /\ cart'[req[r].user] = <<>>
              ELSE cart' = cart]_vars

\* C16: purchaseWithRetry with two attempts allowed makes at most 2 purchase
\* attempts; every attempt before the last one failed with an error that is
\* not a validation error (so it stops at the first success and makes one
\* attempt only on a validation error); when it returns after a single
\* attempt that attempt succeeded, or failed on a validation error; and it
\* returns the result of its last attempt.
ValidationText(err) ==
    \/ Includes(err, Chars("not available"))
    \/ Includes(err, Chars("Invalid"))
    \/ Includes(err, Chars("must be"))

C16_RetryOnlyTransient ==
    /\ Len(vp.log) <= 2
    /\ vp.attempt <= 2
    /\ \A k \in 1..(Len(vp.log) - 1) :
          /\ ~vp.log[k].result.success
          /\ ~ValidationText(vp.log[k].result.error)
    /\ vp.pc = "returned" =>
          /\ vp.ret = vp.log[Len(vp.log)].result
          /\ \/ vp.ret.success
             \/ ValidationText(vp.ret.error)
             \/ Len(vp.log) = 2
          /\ (vp.ret.success \/ ValidationText(vp.ret.error)) \/ vp.fetches = 2

C16_Witness ==
    /\ vp.pc = "returned" /\ Len(vp.log) = 2
    /\ ~vp.log[1].result.success /\ vp.ret.success

\* C17: purchaseWithRetry never throws: whatever the network, the bundle size
\* and the vendor's reactions, the call does not end in an exception, and
\* what it returns on failure has success = false and an error.
C17_NeverThrows ==
    /\ vp.pc # "thrown"
    /\ (vp.pc = "returned" /\ ~vp.ret.success) => vp.ret.error # <<>>

\* C18: a purchase whose network is unknown, or whose volume is not in the
\* network's whitelist, ends after one attempt with a failed Result and
\* without an outbound call.
KnownNetworks == {"MTN", "Telecel", "AirtelTigo"}

C18_UnsupportedFailsClosed ==
    (vp.pc \notin {"idle", "attempt"}
        /\ \/ vp.network \notin KnownNetworks
           \/ ExtractVolumeNumber(vp.size) \notin AvailableVolumes[vp.network]) =>
        /\ vp.pc = "returned"
        /\ ~vp.ret.success /\ vp.ret.error # <<>>
        /\ vp.fetches = 0
        /\ Len(vp.log) = 1

\* C19: the vendor webhook handler answers 200 for every request: payload
\* rejected by parsing, no order matched, order updated, or an internal
\* error while updating.
C19_AlwaysAcknowledged ==
    /\ ack.outcome # "none" => ack.code = 200
    /\ hooks > 0 => ack.outcome \in {"ignored", "unmatched", "updated", "error"}

C19_Witness ==
    /\ ack.outcome = "error" /\ ack.code = 200
    /\ applied # {}

\* C20: the payment-gateway webhook handler, once the signature is valid,
\* never surfaces an internal error: every delivery with a valid signature
\* that it has finished handling was acknowledged as success.
C20_GatewayWebhookAcknowledged ==
    \A g \in Gws :
        (gw[g].pc = "done" /\ gw[g].resp # "NotConfigured"
            /\ SignatureOk(gw[g].sig, gw[g].sess))
        => gw[g].resp = "ok"

\* C21 (as stated): a payment-gateway webhook whose signature header is
\* absent or is not the HMAC of the raw body is answered with a client error
\* and processes nothing: no wallet credit, no order, no vendor call, no cart
\* change.
BadSignature(h) == h.sig = NoSignature \/ h.sig # Hmac(h.sess)

C21_BadSignatureRejected ==
    [][\A g \in Gws :
          (gw[g].pc = "idle" /\ gw'[g].pc # "idle" /\ BadSignature(gw'[g]))
          => /\ gw'[g].pc = "done"
             /\ GwStatusCode(gw'[g].resp) \in 400..499
             /\ UNCHANGED <<balance, credited, orders, clock, cart>>]_vars

\* C21 (amended): a payment-gateway webhook whose signature header is absent
\* or is not the HMAC of the raw body processes nothing (no wallet credit, no
\* order, no vendor call, no cart change) and is refused: with 400 "Invalid
\* signature" when the shared secret is configured, and with 500 "Paystack
\* not configured" when it is not, the secret being looked at before the
\* signature.
C21_BadSignatureProcessesNothing ==
    [][\A g \in Gws :
          (gw[g].pc = "idle" /\ gw'[g].pc # "idle" /\ BadSignature(gw'[g]))
          => /\ gw'[g].pc = "done"
             /\ gw'[g].configured =>
                   (gw'[g].resp = "InvalidSignature"
                    /\ GwStatusCode(gw'[g].resp) \in 400..499)
             /\ ~gw'[g].configured =>
                   (gw'[g].resp = "NotConfigured" /\ GwStatusCode(gw'[g].resp) = 500)
             /\ UNCHANGED <<balance, credited, orders, clock, cart>>]_vars

C21_Witness ==
    /\ \E g \in Gws : gw[g].pc = "done" /\ gw[g].sig = Hmac(0) /\ gw[g].configured
                      /\ gw[g].resp = "InvalidSignature"
                      /\ sessions[gw[g].sess].type = "wallet"
    /\ \E g \in Gws : gw[g].pc = "done" /\ gw[g].sig = NoSignature /\ ~gw[g].configured
                      /\ gw[g].resp = "NotConfigured"
                      /\ sessions[gw[g].sess].type = "order"

\* C22: money crosses the gateway boundary in minor units in both
\* directions: the amount of every session a cart checkout initialised is
\* 100 x the cart total, an amount that single-item pay hands to the gateway
\* is 100 x the price of the product for the caller's role, and the delivery
\* of charge.success for a wallet-funding payment of A minor units adds
\* A / 100 to the wallet.
SessionsInMinorUnits ==
    \A i \in 1..Len(sessions) :
        sessions[i].type = "order"
        => sessions[i].amount = 100 * CartTotal(role[sessions[i].userId], sessions[i].cart)

PayInMinorUnits ==
    IF pay.resp = "session"
    THEN pay.amount = <<100 * RolePrice(role[pay.user], pay.productId)>>
    ELSE pay.amount = <<>>

FundingInCurrencyUnits ==
    \A g \in Gws :
        (gw[g].pc = "idle" /\ gw'[g].pc # "idle" /\ gw'[g].resp = "ok"
            /\ sessions[gw'[g].sess].type = "wallet")
        => LET m == sessions[gw'[g].sess]
           IN  100 * (balance'[m.agentId] - balance[m.agentId]) = m.amount

C22_MinorUnitsAtBoundary ==
    [](SessionsInMinorUnits /\ PayInMinorUnits) /\ [][FundingInCurrencyUnits]_vars

C22_Witness ==
    /\ \E i \in 1..Len(sessions) :
          /\ sessions[i].type = "order" /\ sessions[i].amount = 60000
          /\ CartTotal(role[sessions[i].userId], sessions[i].cart) = 600
    /\ \E g \in Gws : /\ gw[g].resp = "ok" /\ sessions[gw[g].sess].type = "wallet"
                      /\ sessions[gw[g].sess].amount = 15000
    /\ balance["u1"] = 150
    /\ pay.resp = "PaystackFailed" /\ ~pay.useWallet

\* C23: after add-to-cart operations of one user, concurrent ones included,
\* the cart holds at most one entry per (product, phone) pair and the entry's
\* quantity is the sum of the quantities added for the pair.
AddedFor(u, pid, phone) ==
    LET k == AddedIndex(added[u], pid, phone)
    IN  IF k = 0 THEN 0 ELSE added[u][k].quantity

C23_OneEntryPerPair ==
    NoAddRunning
    => \A u \in Users :
          /\ \A i, j \in 1..Len(cart[u]) :
                (cart[u][i].productId = cart[u][j].productId
                 /\ cart[u][i].phoneNumber = cart[u][j].phoneNumber) => i = j
          /\ \A i \in 1..Len(cart[u]) :
                cart[u][i].quantity =
                    AddedFor(u, cart[u][i].productId, cart[u][i].phoneNumber)

\* C24: the local 10-digit form and the +countrycode form of a number
\* normalise to the same countrycode-prefixed digit string ("0241234567" and
\* "+233241234567" both give "233241234567"), and normalising a normalised
\* number changes nothing.
C24_PhoneNormalisation ==
    fmt.called
    => /\ (Len(fmt.body) = 9 /\ fmt.prefix \in {<<"0">>, <<"+", "2", "3", "3">>,
                                                   <<"2", "3", "3">>})
             => fmt.out = <<"2", "3", "3">> \o fmt.body
       /\ fmt.again = fmt.out

C24_Witness ==
    /\ fmt.called
    /\ fmt.input = <<"0", "2", "4", "1", "2", "3", "4", "5", "6", "7">>
    /\ fmt.out = <<"2", "3", "3", "2", "4", "1", "2", "3", "4", "5", "6", "7">>

\* C25: once a vendor webhook has been applied to an order, the order's
\* status is the mapped status of the most recently applied webhook; a
\* dispatch-result write never overwrites it.
LastWebhook(o) == o.webhookHistory[Len(o.webhookHistory)]

C25_WebhookTakesPrecedence ==
    \A i \in 1..Len(orders) :
        orders[i].webhookHistory # <<>>
        => orders[i].status = OurStatus(LastWebhook(orders[i]).status)

\* C26: completed and failed are terminal: once an order is completed or
\* failed, no later vendor webhook or dispatch write changes its status.
C26_TerminalStatusesStay ==
    [][\A i \in 1..Len(orders) :
          orders[i].status \in {"completed", "failed"}
          => orders'[i].status = orders[i].status]_vars

\* C27: a successfully parsed vendor webhook updates at most one order, and
\* the order it updates carries the webhook's orderId or reference as its
\* vendorOrderId or as the transactionId or reference of a processing result.
ChangedOrders == {i \in 1..Len(orders) : orders'[i] # orders[i]}

C27_UpdatesOnlyTheMatchedOrder ==
    [][hooks' = hooks + 1 =>
          /\ Cardinality(ChangedOrders) <= 1
          /\ \A i \in ChangedOrders :
                \/ LastWebhook(orders'[i]).orderId \in OrderIds(orders[i])
                \/ LastWebhook(orders'[i]).reference \in OrderIds(orders[i])]_vars

\* C28: every order for which a vendor dispatch is attempted ends the
\* dispatch step with exactly one processing result: vendor accepted ->
\* status processing, vendorOrderId set, result success; vendor rejected or
\* call failed -> status failed, result not success, error recorded.  Wallet
\* checkout and gateway webhook alike.
DispatchRecorded(o, vr) ==
    /\ Len(o.processingResults) = 1
    /\ o.processingResults[1].itemIndex = 0
    /\ IF vr.success
       THEN /\ o.status = "processing"
            /\ o.vendorOrderId # None
            /\ o.processingResults[1].success
       ELSE /\ o.status = "failed"
            /\ ~o.processingResults[1].success
            /\ o.processingResults[1].error # <<>>

C28_DispatchResultRecorded ==
    [][/\ \A r \in Reqs :
             (req[r].pc \in {"persist", "catch"} /\ req'[r].pc \notin {"persist", "catch"})
             => DispatchRecorded(orders'[req[r].oid], req[r].vres)
       /\ \A g \in Gws :
             (gw[g].pc \in {"persist", "catch"} /\ gw'[g].pc \notin {"persist", "catch"})
             => DispatchRecorded(orders'[gw[g].oid], gw[g].vres)]_vars

\* C29: in a wallet checkout the debit of the full cart total is applied
\* before the first order is created and before the first vendor call: in
\* every state in which an order of the batch exists or a vendor call was
\* made, the checkout is past its debit, and the size of the total has been
\* taken from the stored balance.
C29_DebitBeforeOrders ==
    \A r \in Reqs :
        (OrdersBy(<<"checkout", r>>) # {} \/ req[r].calls > 0)
        => /\ req[r].pc \notin {"idle", "balance", "debit"}
           /\ req[r].debited = Abs(Total(r))
           /\ balance[req[r].user] = credited[req[r].user] - DebitsOf(req[r].user)

C29_Witness ==
    \E r \in Reqs :
        /\ req[r].pc = "dispatch" /\ req[r].calls = 0
        /\ Cardinality(OrdersBy(<<"checkout", r>>)) = 1
        /\ req[r].debited = Total(r) /\ Total(r) > 0
        /\ balance[req[r].user] = credited[req[r].user] - Total(r)

\* C30: an order created by checkout or by the gateway success webhook
\* starts in status processing when a vendor dispatch is attempted for it (a
\* phone number was supplied) and in status pending when not; none is
\* created in a terminal status.
C30_InitialStatus ==
    [][Len(orders') = Len(orders) + 1 =>
          LET o == orders'[Len(orders')]
          IN  /\ o.status = IF o.phoneNumber # NoPhone THEN "processing" ELSE "pending"
              /\ o.status \notin {"completed", "failed"}]_vars

\* C31: the single-item pay path takes the same wallet/gateway decision as
\* the cart checkout of a one-line, quantity-1 cart for the same user,
\* product and stored balance.
OneLineCart(pid) == <<[productId |-> pid, quantity |-> 1, phoneNumber |-> NoPhone]>>

CheckoutDecision(rl, pid, stored, useWallet, configured) ==
    LET c == OneLineCart(pid)
        out == BeginOutcome(c, rl, IF useWallet THEN "wallet" ELSE "paystack")
    IN  IF out.pc = "done" THEN out.resp
        ELSE IF out.pc = "session"
             THEN InitAnswer(IF configured THEN "accepted" ELSE "unconfigured")
        ELSE IF InsufficientFunds(stored, CartTotal(rl, c)) THEN "InsufficientFunds"
        ELSE "ok"

C31_PayDecidesAsCheckout ==
    (pay.resp # "none" /\ HasProduct(pay.productId))
    => pay.resp = CheckoutDecision(role[pay.user], pay.productId, pay.stored, pay.useWallet,
                                   pay.configured)

\* C32: every order creation adds 1 to the owner's daily order count, the
\* price recorded on the order to the daily amount spent, and the order's
\* data volume to the daily and to the lifetime volume counters ("512MB" is
\* half a GB, an unparseable label is 0): whenever no creation is between
\* its save and its count, the counters, with what the daily resets took off
\* them, are the sums over the orders.
OrdersOf(u) == {i \in 1..Len(orders) : orders[i].userId = u}
SumOver(u, f(_)) == SumSeq([i \in 1..Len(orders) |->
                               IF orders[i].userId = u THEN f(orders[i]) ELSE 0])
PriceOf(o) == o.price
VolumeOf(o) == GbIncrement(o.dataAmount)

NoCountPending ==
    /\ NoCreateRunning
    /\ \A r \in Reqs : req[r].pc # "count"
    /\ \A g \in Gws : gw[g].pc # "count"

C32_CountersFollowOrders ==
    NoCountPending =>
    \A u \in Users :
        /\ stats[u].totalOrdersToday + stats[u].wipedOrders = Cardinality(OrdersOf(u))
        /\ stats[u].totalSpentToday + stats[u].wipedSpent = SumOver(u, PriceOf)
        /\ stats[u].totalGBSentToday + stats[u].wipedGB = SumOver(u, VolumeOf)
        /\ stats[u].totalGBPurchased = SumOver(u, VolumeOf)

\* C33: an order's webhook history is append-only: a vendor webhook that is
\* matched to the order appends exactly one entry at the end, and no other
\* step changes the history of any order, so its length is the number of
\* webhooks matched to the order.
HistoryGrewByOne(i) ==
    /\ Len(orders'[i].webhookHistory) = Len(orders[i].webhookHistory) + 1
    /\ SubSeq(orders'[i].webhookHistory, 1, Len(orders[i].webhookHistory))
          = orders[i].webhookHistory

C33_HistoryAppendOnly ==
    [][/\ \A i \in 1..Len(orders) :
             \/ orders'[i].webhookHistory = orders[i].webhookHistory
             \/ HistoryGrewByOne(i) /\ hooks' = hooks + 1 /\ ack'.outcome = "updated"
       /\ (hooks' = hooks + 1 /\ ack'.outcome = "updated")
             => Cardinality({i \in 1..Len(orders) : HistoryGrewByOne(i)}) = 1
       /\ \A i \in (Len(orders) + 1)..Len(orders') : orders'[i].webhookHistory = <<>>]_vars

C33_Witness ==
    \E i \in 1..Len(orders) :
        /\ Len(orders[i].webhookHistory) = 2
        /\ orders[i].webhookHistory[1].status # orders[i].webhookHistory[2].status
        /\ orders[i].processingResults # <<>>

\* C34: after a wallet checkout that answers success, the amount taken from
\* the wallet by that checkout equals the sum of the prices of the orders it
\* created.
C34_DebitEqualsOrders ==
    \A r \in Reqs :
        (req[r].method = "wallet" /\ req[r].resp = "ok")
        => req[r].debited =
              SumSeq([i \in 1..Len(orders) |->
                         IF orders[i].by = <<"checkout", r>> THEN orders[i].price ELSE 0])

\* C35: a wallet-funding payment credits the wallet once, however many times
\* its charge.success is delivered: the credits a wallet received are at most
\* amount/100 for each funding payment made for it.
FundedFor(u) ==
    SumSeq([i \in 1..Len(sessions) |->
               IF sessions[i].type = "wallet" /\ sessions[i].agentId = u
               THEN sessions[i].amount \div 100 ELSE 0])

C35_FundingCreditedOnce ==
    \A u \in Users : credited[u] <= FundedFor(u)

\* C36: two wallet checkouts issued concurrently by the same user over the
\* same cart contents do not both fulfil it: the units are debited and
\* turned into orders once.
SameCart(r1, r2) ==
    /\ r1 # r2
    /\ req[r1].method = "wallet" /\ req[r2].method = "wallet"
    /\ req[r1].user = req[r2].user
    /\ req[r1].cart = req[r2].cart /\ req[r1].cart # <<>>

C36_CartFulfilledOnce ==
    \A r1, r2 \in Reqs :
        SameCart(r1, r2)
        => /\ ~(req[r1].debited > 0 /\ req[r2].debited > 0)
           /\ ~(OrdersBy(<<"checkout", r1>>) # {} /\ OrdersBy(<<"checkout", r2>>) # {})

\* C37: clearing the cart at the end of fulfilment never discards an
\* unpurchased line: a line that is in the cart when the checkout clears it
\* is among the lines the checkout bought (in its snapshot, with at least
\* that quantity) or is still in the cart afterwards.
Bought(snapshot, line) ==
    \E k \in 1..Len(snapshot) :
        /\ snapshot[k].productId = line.productId
        /\ snapshot[k].phoneNumber = line.phoneNumber
        /\ snapshot[k].quantity >= line.quantity

C37_ClearKeepsUnpurchased ==
    [][\A r \in Reqs :
          (req[r].pc = "clear" /\ req'[r].pc = "done")
          => LET u == req[r].user
             IN  \A i \in 1..Len(cart[u]) :
                    \/ Bought(req[r].cart, cart[u][i])
                    \/ \E j \in 1..Len(cart'[u]) :
                          /\ cart'[u][j].productId = cart[u][i].productId
                          /\ cart'[u][j].phoneNumber = cart[u][i].phoneNumber]_vars

\* C38: every vendor purchase is sent with an order reference that no
\* purchase for a different order carries, in wallet checkout and in
\* gateway-webhook fulfilment alike.
SentRef(h) == IF h.pc = "persist" THEN {h.vres.reference} \ {None} ELSE {}
RefsOf(i) ==
    ({orders[i].processingResults[k].reference :
          k \in 1..Len(orders[i].processingResults)} \ {None})
    \cup UNION {SentRef(gw[g]) : g \in {x \in Gws : gw[x].oid = i}}
    \cup UNION {SentRef(req[r]) : r \in {x \in Reqs : req[x].oid = i}}

C38_ReferencesUnique ==
    \A i, j \in 1..Len(orders) : i # j => RefsOf(i) \cap RefsOf(j) = {}

\* C39: if an order was accepted by the vendor (status processing,
\* vendorOrderId stored) and a vendor webhook quoting that id with a terminal
\* status arrives, then, the handler being scheduled fairly, the order
\* eventually has status completed (delivered, resolved) or failed (failed,
\* cancelled, refunded).
TerminalVendorStatuses == {"delivered", "resolved", "failed", "cancelled", "refunded"}
ExpectedFinal(status) == IF status \in {"delivered", "resolved"} THEN "completed" ELSE "failed"

AwaitsWebhook(i, status) ==
    /\ i <= Len(orders)
    /\ orders[i].status = "processing" /\ orders[i].vendorOrderId # None
    /\ inbox.orderId = orders[i].vendorOrderId /\ inbox.status = status

C39_TerminalWebhookResolves ==
    \A i \in 1..(MaxUnits + 1) : \A status \in TerminalVendorStatuses :
        AwaitsWebhook(i, status)
        ~> (i <= Len(orders) /\ orders[i].status = ExpectedFinal(status))

\* C40: an agent whose account is not verified never obtains an order and
\* never spends the wallet through orders.create, /api/orders/pay or
\* /api/cart/checkout, and a verified agent is not answered "not verified".
Unverified(u) == role[u] = "agent" /\ ~isVerified[u]

UnverifiedGetNothing ==
    /\ \A r \in Reqs :
          (req[r].pc # "idle" /\ Unverified(req[r].user)) =>
              (req[r].debited = 0 /\ \A i \in 1..Len(orders) : orders[i].by # <<"checkout", r>>)
    /\ (pay.resp \in {"ok", "session", "created"}) => ~Unverified(pay.user)

VerifiedNotBlocked ==
    (pay' # pay /\ pay'.resp = "Forbidden" /\ role[pay'.user] = "agent")
        => ~isVerified[pay'.user]

C40_VerificationGate == []UnverifiedGetNothing /\ [][VerifiedNotBlocked]_vars
====
